---- MODULE Spec2Model ----
(***************************************************************************)
(* pgspectre: the repository scanner (sequential and parallel), the        *)
(* finding lifecycle of the audit/check commands (report filters, baseline *)
(* update, baseline filter, suppression, exit code) and the catalog        *)
(* detectors, modelled from the Go sources.                                *)
(***************************************************************************)
EXTENDS Integers, Sequences, FiniteSets, TLC

(***************************************************************************)
(* Bounds of the model.                                                    *)
(***************************************************************************)
MaxFiles == 2
MaxWorkers == 2
MaxCPU == 2

(***************************************************************************)
(* Strings.  Go strings are TLA+ strings; the conversions the code applies *)
(* are tabulated over the strings the model uses.                          *)
(***************************************************************************)

\* strings.ToLower
ToLower(s) ==
    CASE s = "Orders" -> "orders"
      [] s = "Users" -> "users"
      [] s = "Logs" -> "logs"
      [] s = "Nick" -> "nick"
      [] s = "PUBLIC" -> "public"
      [] s = ".SQL" -> ".sql"
      [] s = "ID" -> "id"
      [] s = "Medium" -> "medium"
      [] s = "LOW" -> "low"
      [] s = "LOG*" -> "log*"
      [] s = "SCHEMA_DRIFT" -> "schema_drift"
      [] s = "UNUSED_TABLE" -> "unused_table"
      [] s = "UNUSED_INDEX" -> "unused_index"
      [] s = "BLOATED_INDEX" -> "bloated_index"
      [] s = "MISSING_VACUUM" -> "missing_vacuum"
      [] s = "NO_PRIMARY_KEY" -> "no_primary_key"
      [] s = "DUPLICATE_INDEX" -> "duplicate_index"
      [] s = "MISSING_TABLE" -> "missing_table"
      [] s = "MISSING_COLUMN" -> "missing_column"
      [] s = "UNREFERENCED_TABLE" -> "unreferenced_table"
      [] s = "CODE_MATCH" -> "code_match"
      [] s = "SELECT" -> "select"
      [] s = "FROM" -> "from"
      [] s = "JOIN" -> "join"
      [] s = "WHERE" -> "where"
      [] s = "ORDER" -> "order"
      [] s = "BY" -> "by"
      [] s = "INSERT" -> "insert"
      [] s = "INTO" -> "into"
      [] s = "VALUES" -> "values"
      [] s = "Select" -> "select"
      [] s = "Count" -> "count"
      [] OTHER -> s

\* strings.ToUpper
ToUpper(s) ==
    CASE s = "schema_drift" -> "SCHEMA_DRIFT"
      [] s = "unused_table" -> "UNUSED_TABLE"
      [] s = "missing_column" -> "MISSING_COLUMN"
      [] s = "low" -> "LOW"
      [] s = "Medium" -> "MEDIUM"
      [] s = "bogus" -> "BOGUS"
      [] s = "Select" -> "SELECT"
      [] s = "Count" -> "COUNT"
      [] s = "email" -> "EMAIL"
      [] s = "users" -> "USERS"
      [] s = "orders" -> "ORDERS"
      [] s = "nick" -> "NICK"
      [] s = "id" -> "ID"
      [] OTHER -> s

\* strings.TrimSpace
TrimSpace(s) ==
    CASE s = " " -> ""
      [] s = " LOW" -> "LOW"
      [] OTHER -> s

\* strings.Split(s, ",")
SplitComma(s) ==
    CASE s = "SCHEMA_DRIFT,unused_table" -> <<"SCHEMA_DRIFT", "unused_table">>
      [] s = " , " -> <<" ", " ">>
      [] s = "schema_drift, LOW" -> <<"schema_drift", " LOW">>
      [] s = "MISSING_TABLE,MISSING_COLUMN" -> <<"MISSING_TABLE", "MISSING_COLUMN">>
      [] OTHER -> <<s>>

\* strings.Join(parts, ",")
JoinComma(parts) ==
    IF parts = <<>> THEN ""
    ELSE IF Len(parts) = 1 THEN parts[1]
    ELSE parts[1] \o "," \o parts[2]

\* strings.EqualFold
EqualFold(a, b) == ToLower(a) = ToLower(b)

\* strings.HasSuffix(p, "*") and strings.TrimSuffix(p, "*")
HasStarSuffix(p) == p \in {"log*", "*"}
TrimStarSuffix(p) ==
    CASE p = "log*" -> "log"
      [] p = "*" -> ""
      [] OTHER -> p

\* strings.HasPrefix
HasPrefix(s, p) == p = "" \/ s = p \/ <<s, p>> \in {<<"logs", "log">>}

\* byte-wise order of the strings that sort.Strings compares
\* ('.' < 'i' < 'o' < 'u'; a proper prefix sorts first)
StrRank(s) ==
    CASE s = ".id" -> 1
      [] s = "orders" -> 2
      [] s = "orders.id" -> 3
      [] s = "users" -> 4
      [] s = "users.id" -> 5
      [] OTHER -> 0

RECURSIVE SortStrings(_)
\* sort.Strings over the keys of a `seen` map: ascending, duplicate-free
SortStrings(S) ==
    IF S = {} THEN <<>>
    ELSE LET m == CHOOSE x \in S : \A y \in S : StrRank(x) <= StrRank(y)
         IN <<m>> \o SortStrings(S \ {m})

Range(s) == {s[i] : i \in 1..Len(s)}

(***************************************************************************)
(* Scanner: source tree, Scan and ScanParallel.                            *)
(***************************************************************************)

supportedExtensions == {".go", ".py", ".js", ".ts", ".jsx", ".tsx", ".java",
                        ".rb", ".sql", ".rs", ".prisma"}

skipDirs == {"node_modules", "vendor", ".git", "__pycache__", ".venv",
             "venv", "dist", "build", "bin"}

\* The files a tree is built from.  dir is the name of the directory that
\* holds the file, ext its extension as written, err whether opening or
\* reading it fails, refs/cols what the pattern engine extracts from the
\* part of the file that could be read.
FileUniverse ==
    { [dir |-> "",       ext |-> ".go",  err |-> FALSE,
       refs |-> <<"users">>,           cols |-> << <<"users", "ID">> >>],
      [dir |-> "",       ext |-> ".SQL", err |-> FALSE,
       refs |-> <<"Orders", "users">>, cols |-> << <<"", "id">>, <<"Orders", "id">> >>],
      [dir |-> "",       ext |-> ".go",  err |-> TRUE,
       refs |-> <<>>,                  cols |-> <<>>],
      [dir |-> "",       ext |-> ".txt", err |-> FALSE,
       refs |-> <<>>,                  cols |-> <<>>],
      [dir |-> "",       ext |-> ".sql", err |-> TRUE,
       refs |-> <<"orders">>,          cols |-> <<>>],
      [dir |-> "vendor", ext |-> ".go",  err |-> TRUE,
       refs |-> <<>>,                  cols |-> <<>>] }

Trees == UNION {[1..n -> FileUniverse] : n \in 0..MaxFiles}

\* scanFile: the references of one file and its error
scanFile(t, i) ==
    [refs    |-> [k \in 1..Len(t[i].refs) |-> [Table |-> t[i].refs[k], File |-> i]],
     colRefs |-> [k \in 1..Len(t[i].cols) |->
                    [Table |-> t[i].cols[k][1], Column |-> t[i].cols[k][2], File |-> i]],
     err     |-> t[i].err,
     filePath |-> i]

\* uniqueTables without the final sort: first-occurrence order
RECURSIVE uniqueTablesUnsorted(_)
uniqueTablesUnsorted(refs) ==
    IF refs = <<>> THEN <<>>
    ELSE LET n == Len(refs)
             init == uniqueTablesUnsorted(SubSeq(refs, 1, n - 1))
             x == ToLower(refs[n].Table)
         IN IF x \in Range(init) THEN init ELSE Append(init, x)

uniqueTables(refs) ==
    SortStrings({ToLower(refs[k].Table) : k \in 1..Len(refs)})

uniqueColumns(refs) ==
    SortStrings({ToLower(refs[k].Table) \o "." \o ToLower(refs[k].Column) :
                    k \in 1..Len(refs)})

EmptyResult ==
    [err |-> FALSE, Refs |-> <<>>, ColumnRefs |-> <<>>, Tables |-> <<>>,
     Columns |-> <<>>, FilesScanned |-> 0, FilesSkipped |-> 0]

\* the WalkDir callback's filter: pruned directory, unsupported extension
Pruned(f) == f.dir \in skipDirs
Supported(f) == ToLower(f.ext) \in supportedExtensions

RECURSIVE ScanWalk(_, _, _)
\* the sequential walk from entry i on, with the result so far
ScanWalk(t, i, acc) ==
    IF i > Len(t)
    THEN [acc EXCEPT !.Tables = uniqueTables(acc.Refs),
                     !.Columns = uniqueColumns(acc.ColumnRefs)]
    ELSE IF Pruned(t[i]) THEN ScanWalk(t, i + 1, acc)
    ELSE IF ~Supported(t[i])
         THEN ScanWalk(t, i + 1, [acc EXCEPT !.FilesSkipped = @ + 1])
    ELSE LET fr == scanFile(t, i)
         IN IF fr.err THEN [acc EXCEPT !.err = TRUE]
            ELSE ScanWalk(t, i + 1,
                          [acc EXCEPT !.Refs = @ \o fr.refs,
                                      !.ColumnRefs = @ \o fr.colRefs,
                                      !.FilesScanned = @ + 1])

\* Scan: the sequential scan of a tree
Scan(t) == ScanWalk(t, 1, EmptyResult)

RECURSIVE CollectPaths(_, _)
\* phase 1 of ScanParallel: the supported, unpruned entries in walk order
CollectPaths(t, i) ==
    IF i > Len(t) THEN <<>>
    ELSE IF ~Pruned(t[i]) /\ Supported(t[i]) THEN <<i>> \o CollectPaths(t, i + 1)
    ELSE CollectPaths(t, i + 1)

\* phase 1 of ScanParallel: the unsupported files counted as skipped
CountSkipped(t) == Cardinality({i \in 1..Len(t) : ~Pruned(t[i]) /\ ~Supported(t[i])})

\* make(chan string, len(paths))
PathChanCapacity(ps) == Len(ps)

\* an unbuffered result channel: make(chan fileResult)
UnbufferedCapacity(ps) == 0

\* make(chan fileResult, len(paths))
ResultChanCapacity(ps) == Len(ps)

(***************************************************************************)
(* Finding lifecycle: fingerprints, baseline, suppression, report filters, *)
(* summary and exit code.                                                  *)
(***************************************************************************)

MaxFindings == 2

SeverityHigh == "high"
SeverityMedium == "medium"
SeverityLow == "low"
SeverityInfo == "info"

\* a Finding with its identity-bearing fields, severity and message
Finding(type, sev, schema, table, column, index, msg) ==
    [Type |-> type, Severity |-> sev, Schema |-> schema, Table |-> table,
     Column |-> column, Index |-> index, Message |-> msg]

\* findings the analyzers produce, in a fixed enumeration
FindingUniverse ==
    << Finding("UNUSED_TABLE", SeverityHigh, "public", "logs", "", "",
               "table has no sequential or index scans"),
       Finding("UNUSED_INDEX", SeverityMedium, "public", "users", "", "idx_a",
               "index idx_a has never been used"),
       Finding("DUPLICATE_INDEX", SeverityLow, "public", "users", "", "idx_c",
               "index idx_c has the same definition as idx_a"),
       Finding("DUPLICATE_INDEX", SeverityLow, "public", "users", "", "idx_c",
               "index idx_c has the same definition as idx_b"),
       Finding("MISSING_COLUMN", SeverityMedium, "public", "Orders", "total", "",
               "column total referenced in code but does not exist"),
       Finding("CODE_MATCH", SeverityInfo, "public", "users", "", "",
               "table users exists in database and is referenced in code") >>

\* the lists of findings an analyzer run can hand to the lifecycle
FindingLists ==
    {l \in UNION {[1..n -> Range(FindingUniverse)] : n \in 0..MaxFindings} :
        \A i, j \in 1..Len(l) : i # j => l[i] # l[j]}

\* sha256.Sum256 truncated to 16 bytes and hex-encoded.  The digest is kept
\* symbolic: equal keys give equal digests, and different keys are taken to
\* give different digests (no collision of SHA-256 is assumed).
Sha256Hex16(key) == <<"sha256/16", key>>

\* fmt.Sprintf("%s|%s|%s|%s|%s", f.Type, f.Schema, f.Table, f.Column, f.Index)
FingerprintKey(f) ==
    f.Type \o "|" \o f.Schema \o "|" \o f.Table \o "|" \o f.Column \o "|" \o f.Index

Fingerprint(f) == Sha256Hex16(FingerprintKey(f))

\* the order sort.Strings puts fingerprints in: a fixed total order on digests
FpRank(fp) ==
    LET idx == {i \in 1..Len(FindingUniverse) : Fingerprint(FindingUniverse[i]) = fp}
    IN IF idx = {} THEN 0 ELSE CHOOSE i \in idx : \A j \in idx : i <= j

RECURSIVE SortFingerprints(_)
SortFingerprints(S) ==
    IF S = {} THEN <<>>
    ELSE LET m == CHOOSE x \in S : \A y \in S : FpRank(x) <= FpRank(y)
         IN <<m>> \o SortFingerprints(S \ {m})

\* contents of a path of the file system
NoFile == [kind |-> "absent"]
GarbageFile == [kind |-> "garbage"]
BaselineFile(fps) == [kind |-> "baseline", fingerprints |-> fps]

\* Save that leaves the first finding out of the baseline
SaveSkippingFirst(findings) ==
    BaselineFile(SortFingerprints({Fingerprint(findings[i]) : i \in 2..Len(findings)}))

\* baseline.Save: the duplicate-free, sorted fingerprints as a JSON document
Save(findings) ==
    BaselineFile(SortFingerprints({Fingerprint(findings[i]) : i \in 1..Len(findings)}))

\* baseline.Load: a missing file is an empty baseline, an unparsable one an error
Load(file) ==
    CASE file.kind = "absent" -> [err |-> FALSE, Fingerprints |-> <<>>, set |-> {}]
      [] file.kind = "garbage" -> [err |-> TRUE, Fingerprints |-> <<>>, set |-> {}]
      [] OTHER -> [err |-> FALSE, Fingerprints |-> file.fingerprints,
                   set |-> Range(file.fingerprints)]

\* Baseline.Contains
Contains(b, f) == Fingerprint(f) \in b.set

\* Baseline.Filter that does not count what it drops
BaselineFilterUncounted(b, findings) ==
    LET NotIn(f) == ~Contains(b, f)
    IN [findings |-> SelectSeq(findings, NotIn), suppressed |-> 0]

\* Baseline.Filter: the findings not in the baseline and the number dropped
BaselineFilter(b, findings) ==
    IF b.set = {} THEN [findings |-> findings, suppressed |-> 0]
    ELSE LET NotIn(f) == ~Contains(b, f)
             kept == SelectSeq(findings, NotIn)
         IN [findings |-> kept, suppressed |-> Len(findings) - Len(kept)]

\* suppress.matchTable
matchTable(pattern, table) ==
    LET p == ToLower(pattern)
        t == ToLower(table)
    IN IF HasStarSuffix(p) THEN HasPrefix(t, TrimStarSuffix(p)) ELSE p = t

NoRules == [loadErr |-> FALSE, ignoreFile |-> <<>>, configFindings |-> <<>>]

\* an ignore file that LoadRules cannot read or parse
UnreadableRules == [loadErr |-> TRUE, ignoreFile |-> <<>>, configFindings |-> <<>>]

\* the suppression rules a run can load (.pgspectre-ignore.yml and exclude.findings)
RuleSets ==
    { NoRules,
      UnreadableRules,
      [loadErr |-> FALSE, ignoreFile |-> <<>>, configFindings |-> <<"unused_index">>],
      [loadErr |-> FALSE, ignoreFile |-> << [Table |-> "LOG*", Type |-> ""],
                                             [Table |-> "users", Type |-> "duplicate_index"] >>,
       configFindings |-> <<>>] }

\* Rules.IsSuppressed
IsSuppressed(r, f) ==
    \/ \E i \in 1..Len(r.configFindings) : EqualFold(f.Type, r.configFindings[i])
    \/ \E i \in 1..Len(r.ignoreFile) :
          /\ matchTable(r.ignoreFile[i].Table, f.Table)
          /\ r.ignoreFile[i].Type = "" \/ EqualFold(r.ignoreFile[i].Type, f.Type)

\* Rules.Filter
RulesFilter(r, findings) ==
    IF Len(r.ignoreFile) = 0 /\ Len(r.configFindings) = 0
    THEN [findings |-> findings, suppressed |-> 0]
    ELSE LET NotSuppressed(f) == ~IsSuppressed(r, f)
             kept == SelectSeq(findings, NotSuppressed)
         IN [findings |-> kept, suppressed |-> Len(findings) - Len(kept)]

\* cli.severityOrder
severityOrder ==
    [s \in {"info", "low", "medium", "high"} |->
        CASE s = "info" -> 0 [] s = "low" -> 1 [] s = "medium" -> 2 [] s = "high" -> 3]

\* findingTypeAliases
findingTypeAliases == [t \in {"SCHEMA_DRIFT"} |-> "MISSING_COLUMN"]

\* canonicalFindingType without the alias table
canonicalFindingTypeNoAlias(t) == ToUpper(TrimSpace(t))

canonicalFindingType(t) ==
    LET u == ToUpper(TrimSpace(t))
    IN IF u = "" THEN ""
       ELSE IF u \in DOMAIN findingTypeAliases THEN findingTypeAliases[u]
       ELSE u

filterBySeverity(findings, minSev) ==
    IF ToLower(minSev) \notin DOMAIN severityOrder THEN findings
    ELSE LET AtLeast(f) == severityOrder[f.Severity] >= severityOrder[ToLower(minSev)]
         IN SelectSeq(findings, AtLeast)

filterByType(findings, typeFilter) ==
    LET parts == SplitComma(typeFilter)
        types == {canonicalFindingType(parts[i]) : i \in 1..Len(parts)} \ {""}
        Listed(f) == f.Type \in types
    IN IF types = {} THEN findings ELSE SelectSeq(findings, Listed)

applyReportFilters(findings, minSeverity, typeFilter) ==
    LET bySev == IF minSeverity # "" THEN filterBySeverity(findings, minSeverity)
                 ELSE findings
    IN IF typeFilter # "" THEN filterByType(bySev, typeFilter) ELSE bySev

\* shouldFailOn: the listed types and severities, then the first match
shouldFailOn(findings, failOn) ==
    LET parts == SplitComma(failOn)
        named == {i \in 1..Len(parts) : TrimSpace(parts[i]) # ""}
        sevIdx == {i \in named : ToLower(TrimSpace(parts[i])) \in {"high", "medium", "low", "info"}}
        severities == {ToLower(TrimSpace(parts[i])) : i \in sevIdx}
        types == {canonicalFindingType(TrimSpace(parts[i])) : i \in named \ sevIdx} \ {""}
    IN \E k \in 1..Len(findings) :
          findings[k].Type \in types \/ findings[k].Severity \in severities

\* resolveCheckFailOn: the legacy flags count only without --fail-on
resolveCheckFailOn(failOn, failOnMissing, failOnDrift) ==
    IF TrimSpace(failOn) # "" THEN failOn
    ELSE JoinComma((IF failOnMissing THEN <<"MISSING_TABLE">> ELSE <<>>)
                   \o (IF failOnDrift THEN <<"MISSING_COLUMN">> ELSE <<>>))

\* analyzer.severityOrder
analyzerSeverityOrder(s) ==
    CASE s = "info" -> 0 [] s = "low" -> 1 [] s = "medium" -> 2 [] s = "high" -> 3
      [] OTHER -> 0

RECURSIVE MaxSeverityFrom(_, _)
\* the loop of MaxSeverity with its running maximum
MaxSeverityFrom(findings, max) ==
    IF findings = <<>> THEN max
    ELSE MaxSeverityFrom(Tail(findings),
            IF analyzerSeverityOrder(Head(findings).Severity) > analyzerSeverityOrder(max)
            THEN Head(findings).Severity ELSE max)

\* analyzer.MaxSeverity
MaxSeverity(findings) == MaxSeverityFrom(findings, SeverityInfo)

\* ExitCode that reports medium as success
ExitCodeIgnoringMedium(s) == IF s = SeverityHigh THEN 2 ELSE 0

\* analyzer.ExitCode
ExitCode(s) ==
    CASE s = SeverityHigh -> 2
      [] s = SeverityMedium -> 1
      [] OTHER -> 0

\* reporter.NewReport: the summary counts and the highest severity
NewReport(findings) ==
    LET Count(sev) == Cardinality({i \in 1..Len(findings) : findings[i].Severity = sev})
    IN [Findings |-> findings,
        MaxSeverity |-> MaxSeverity(findings),
        Summary |-> [Total |-> Len(findings), High |-> Count(SeverityHigh),
                     Medium |-> Count(SeverityMedium), Low |-> Count(SeverityLow),
                     Info |-> Count(SeverityInfo)]]

NoReport == NewReport(<<>>)

\* the paths baseline flags name
Paths == {"old.json", "new.json"}

\* the values the flags take in the model
MinSeverityFlags == {"", "Medium", "bogus"}
TypeFlags == {"", "SCHEMA_DRIFT,unused_table", " , "}
UpdateBaselineFlags == {"", "new.json"}
BaselineFlags == {"", "old.json", "new.json"}
FailOnFlags == {"", " ", "schema_drift, LOW", "UNUSED_TABLE"}

\* what old.json holds when the command starts
OldBaselines == {NoFile, GarbageFile, BaselineFile(<<Fingerprint(FindingUniverse[1])>>)}

\* filterFindings that never consults the baseline
filterFindingsWithoutBaseline(fnd, blPath, files, rules) ==
    IF rules.loadErr
    THEN [err |-> "load suppress rules", findings |-> <<>>, totalSuppressed |-> 0,
          baselineDropped |-> 0]
    ELSE LET sup == RulesFilter(rules, fnd)
         IN [err |-> "", findings |-> sup.findings,
             totalSuppressed |-> sup.suppressed, baselineDropped |-> 0]

\* filterFindings: the baseline filter when --baseline is given, then the
\* suppression rules; a rule set with loadErr is an ignore file that fails to load
filterFindings(fnd, blPath, files, rules) ==
    LET bl == IF blPath # "" THEN Load(files[blPath]) ELSE Load(NoFile)
        afterBl == IF blPath # "" THEN BaselineFilter(bl, fnd)
                   ELSE [findings |-> fnd, suppressed |-> 0]
    IN IF blPath # "" /\ bl.err
       THEN [err |-> "load baseline", findings |-> <<>>, totalSuppressed |-> 0,
             baselineDropped |-> 0]
       ELSE IF rules.loadErr
       THEN [err |-> "load suppress rules", findings |-> <<>>, totalSuppressed |-> 0,
             baselineDropped |-> afterBl.suppressed]
       ELSE LET sup == RulesFilter(rules, afterBl.findings)
            IN [err |-> "", findings |-> sup.findings,
                totalSuppressed |-> afterBl.suppressed + sup.suppressed,
                baselineDropped |-> afterBl.suppressed]

(***************************************************************************)
(* Analyzer: the catalog detectors of Audit and the code/catalog           *)
(* comparison of Diff.                                                     *)
(***************************************************************************)

MaxIndexes == 3

\* tableKey(schema, table)
tableKey(schema, table) == schema \o "." \o table

\* DefaultAuditOptions(); the unused-index minimum is the documented default
\* of unused_index_min_bytes (100MB)
DefaultAuditOptions ==
    [VacuumDays |-> 30, UnusedIndexMinBytes |-> 100 * 1024 * 1024,
     BloatMinBytes |-> 1024 * 1024, ExcludeTables |-> <<>>, ExcludeSchemas |-> <<>>]

\* the options a run passes to Audit
AuditOptionsSet ==
    { [VacuumDays |-> 0, UnusedIndexMinBytes |-> 0, BloatMinBytes |-> 0,
       ExcludeTables |-> <<>>, ExcludeSchemas |-> <<>>],
      [VacuumDays |-> 60, UnusedIndexMinBytes |-> 0, BloatMinBytes |-> 0,
       ExcludeTables |-> <<"Logs">>, ExcludeSchemas |-> <<>>],
      [VacuumDays |-> 0, UnusedIndexMinBytes |-> 0, BloatMinBytes |-> 0,
       ExcludeTables |-> <<>>, ExcludeSchemas |-> <<"PUBLIC">>] }

\* the tables of the catalog and what the snapshot holds about each
TableNames == <<"users", "logs">>
TableProfiles == {"absent", "idle", "active", "nostats"}

\* postgres.TableInfo rows of the snapshot
SnapTables(prof) ==
    LET row(i) == [Schema |-> "public", Name |-> TableNames[i],
                   SizeBytes |-> IF prof[i] = "nostats" THEN 0 ELSE 10 * 1024 * 1024]
        present == SelectSeq(<<1, 2>>, LAMBDA i : prof[i] # "absent")
    IN [k \in 1..Len(present) |-> row(present[k])]

\* postgres.TableStats rows; the age of the last autovacuum is in hours,
\* -1 when LastAutovacuum is nil
SnapStats(prof) ==
    LET row(i) == [Schema |-> "public", Name |-> TableNames[i],
                   SeqScan |-> IF prof[i] = "active" THEN 5 ELSE 0,
                   IdxScan |-> IF prof[i] = "active" THEN 2 ELSE 0,
                   LastAutovacuumAge |-> IF prof[i] = "active" THEN 40 * 24 ELSE -1]
        present == SelectSeq(<<1, 2>>, LAMBDA i : prof[i] \in {"idle", "active"})
    IN [k \in 1..Len(present) |-> row(present[k])]

\* postgres.ConstraintInfo rows: a primary key on every table but the idle ones
SnapConstraints(prof) ==
    LET row(i) == [Schema |-> "public", Table |-> TableNames[i], Type |-> "p"]
        present == SelectSeq(<<1, 2>>, LAMBDA i : prof[i] \in {"active", "nostats"})
    IN [k \in 1..Len(present) |-> row(present[k])]

\* postgres.ColumnInfo rows: one column per table
SnapColumns(prof) ==
    LET row(i) == [Schema |-> "public", Table |-> TableNames[i],
                   Name |-> IF i = 1 THEN "email" ELSE "msg"]
        present == SelectSeq(<<1, 2>>, LAMBDA i : prof[i] # "absent")
    IN [k \in 1..Len(present) |-> row(present[k])]

IndexNames == <<"idx_1", "idx_2", "idx_3", "idx_4">>
IndexShapes == {"email", "email_unique_unused", "name"}

\* an index definition as pg_indexes gives it, cut into words and runs of
\* white space
IndexDefinition(name, table, shape) ==
    CASE shape = "email" ->
           <<"CREATE", " ", "INDEX", " ", name, " ", "ON", " ", table, " ", "(email)">>
      [] shape = "email_unique_unused" ->
           <<"CREATE", " ", "UNIQUE", " ", "INDEX", " ", name, " ", "ON", " ", table,
             "  ", "(email)">>
      [] OTHER ->
           <<"CREATE", " ", "INDEX", " ", name, " ", "ON", " ", table, " ", "(name)">>

\* a postgres.IndexInfo row
IndexInfo(i, table, shape) ==
    [Schema |-> "public", Table |-> table, Name |-> IndexNames[i],
     Definition |-> IndexDefinition(IndexNames[i], table, shape),
     SizeBytes |-> IF shape = "email_unique_unused" THEN 200 * 1024 * 1024 ELSE 8192,
     IndexScans |-> IF shape = "email_unique_unused" THEN 0 ELSE 7]

\* snapshots of a catalog that holds a table users in two schemas, each with
\* a stats row of its own
CrossSchemaSnapshots ==
    { [Tables |-> << [Schema |-> "public", Name |-> "users", SizeBytes |-> 10 * 1024 * 1024],
                     [Schema |-> "archive", Name |-> "users", SizeBytes |-> 10 * 1024 * 1024] >>,
       Columns |-> <<>>,
       Indexes |-> <<>>,
       Stats |-> << [Schema |-> "public", Name |-> "users", SeqScan |-> a, IdxScan |-> 0,
                     LastAutovacuumAge |-> -1],
                    [Schema |-> "archive", Name |-> "users", SeqScan |-> b, IdxScan |-> 0,
                     LastAutovacuumAge |-> -1] >>,
       Constraints |-> << [Schema |-> "public", Table |-> "users", Type |-> "p"],
                          [Schema |-> "archive", Table |-> "users", Type |-> "p"] >>] :
        a \in {0, 5}, b \in {0, 5} }

\* the snapshots of the model: every index sits on a table of the snapshot
Snapshots ==
    CrossSchemaSnapshots \cup
    { [Tables |-> SnapTables(prof), Columns |-> SnapColumns(prof),
       Indexes |-> [i \in 1..n |-> IndexInfo(i, ix[i][1], ix[i][2])],
       Stats |-> SnapStats(prof), Constraints |-> SnapConstraints(prof)] :
        <<prof, n, ix>> \in
          { <<p, m, x>> \in [1..2 -> TableProfiles] \X (0..MaxIndexes)
                             \X [1..MaxIndexes -> Range(TableNames) \X IndexShapes] :
              /\ \A i \in 1..MaxIndexes :
                    IF i <= m THEN \E t \in 1..2 : TableNames[t] = x[i][1] /\ p[t] # "absent"
                    ELSE x[i] = <<"users", "email">> } }

\* strings.Fields: the words of a definition
Fields(def) == SelectSeq(def, LAMBDA w : w \notin {" ", "  "})

\* normalizeDef: white space collapsed, then everything before the first
\* " ON " (any case) dropped; the text is kept as its words, `lead` being the
\* blank the cut leaves in front
normalizeDef(def) ==
    LET w == Fields(def)
        at == {k \in 2..(Len(w) - 1) : ToUpper(w[k]) = "ON"}
    IN IF at # {}
       THEN [lead |-> " ",
             words |-> SubSeq(w, CHOOSE k \in at : \A j \in at : k <= j, Len(w))]
       ELSE [lead |-> "", words |-> w]

\* membership in the excludeTable / excludeSchema maps of Audit
Excluded(opts, schema, table) ==
    \/ \E i \in 1..Len(opts.ExcludeTables) : ToLower(opts.ExcludeTables[i]) = ToLower(table)
    \/ \E i \in 1..Len(opts.ExcludeSchemas) : ToLower(opts.ExcludeSchemas[i]) = ToLower(schema)

detectUnusedTables(stats) ==
    LET hit == SelectSeq(stats, LAMBDA s : s.SeqScan = 0 /\ s.IdxScan = 0)
    IN [k \in 1..Len(hit) |->
          Finding("UNUSED_TABLE", SeverityHigh, hit[k].Schema, hit[k].Name, "", "",
                  "table has no sequential or index scans")]

detectUnusedIndexes(indexes, minSizeBytes) ==
    LET hit == SelectSeq(indexes, LAMBDA x : x.IndexScans = 0 /\ x.SizeBytes > minSizeBytes)
    IN [k \in 1..Len(hit) |->
          Finding("UNUSED_INDEX", SeverityMedium, hit[k].Schema, hit[k].Table, "",
                  hit[k].Name, "index " \o hit[k].Name \o " has never been used")]

\* tableSizeMap[key], 0 when the key is absent
TableSize(tables, key) ==
    LET at == {i \in 1..Len(tables) :
                  tables[i].SizeBytes > 0 /\ tableKey(tables[i].Schema, tables[i].Name) = key}
    IN IF at = {} THEN 0 ELSE tables[CHOOSE i \in at : \A j \in at : i >= j].SizeBytes

detectBloatedIndexes(indexes, tables, bloatMin) ==
    LET size(x) == TableSize(tables, tableKey(x.Schema, x.Table))
        hit == SelectSeq(indexes, LAMBDA x : /\ size(x) > 0
                                             /\ x.SizeBytes > bloatMin
                                             /\ x.SizeBytes > size(x))
    IN [k \in 1..Len(hit) |->
          Finding("BLOATED_INDEX", SeverityLow, hit[k].Schema, hit[k].Table, "",
                  hit[k].Name, "index " \o hit[k].Name \o " is larger than table")]

\* threshold in hours
detectMissingVacuum(stats, threshold) ==
    LET hit == SelectSeq(stats, LAMBDA s :
                   /\ ~(s.SeqScan = 0 /\ s.IdxScan = 0)
                   /\ \/ s.LastAutovacuumAge = -1
                      \/ s.LastAutovacuumAge > threshold)
    IN [k \in 1..Len(hit) |->
          Finding("MISSING_VACUUM", SeverityLow, hit[k].Schema, hit[k].Name, "", "",
                  IF hit[k].LastAutovacuumAge = -1
                  THEN "active table has no autovacuum history"
                  ELSE "last autovacuum was long ago")]

\* pkSet[key]
HasPrimaryKey(constraints, key) ==
    \E i \in 1..Len(constraints) :
        constraints[i].Type = "p" /\ tableKey(constraints[i].Schema, constraints[i].Table) = key

detectNoPrimaryKey(tables, constraints) ==
    LET hit == SelectSeq(tables, LAMBDA t : ~HasPrimaryKey(constraints, tableKey(t.Schema, t.Name)))
    IN [k \in 1..Len(hit) |->
          Finding("NO_PRIMARY_KEY", SeverityMedium, hit[k].Schema, hit[k].Name, "", "",
                  "table has no primary key")]

\* the keys of the byTable map
IndexTableKeys(indexes) == {tableKey(indexes[i].Schema, indexes[i].Table) : i \in 1..Len(indexes)}

\* the orders in which a range over the byTable map can visit its keys
KeyOrders(keys) ==
    {o \in [1..Cardinality(keys) -> keys] : \A i, j \in 1..Cardinality(keys) : i # j => o[i] # o[j]}

\* the pairs (i, j), i < j, of one group in the order of the two nested loops
RECURSIVE PairsFrom(_, _, _)
PairsFrom(i, j, n) ==
    IF i >= n THEN <<>>
    ELSE IF j > n THEN PairsFrom(i + 1, i + 2, n)
    ELSE <<<<i, j>>>> \o PairsFrom(i, j + 1, n)

\* a comparison of each index of a group with its successor only
DuplicatesOfNeighbours(group) ==
    LET pairs == SelectSeq([i \in 1..(Len(group) - 1) |-> <<i, i + 1>>], LAMBDA p :
                     normalizeDef(group[p[1]].Definition) = normalizeDef(group[p[2]].Definition))
    IN [k \in 1..Len(pairs) |->
          Finding("DUPLICATE_INDEX", SeverityLow, group[pairs[k][1]].Schema,
                  group[pairs[k][1]].Table, "", group[pairs[k][2]].Name,
                  "index " \o group[pairs[k][2]].Name \o " has the same definition as "
                      \o group[pairs[k][1]].Name)]

\* the findings of one group of detectDuplicateIndexes
DuplicatesInGroup(group) ==
    LET pairs == SelectSeq(PairsFrom(1, 2, Len(group)), LAMBDA p :
                     normalizeDef(group[p[1]].Definition) = normalizeDef(group[p[2]].Definition))
    IN [k \in 1..Len(pairs) |->
          Finding("DUPLICATE_INDEX", SeverityLow, group[pairs[k][1]].Schema,
                  group[pairs[k][1]].Table, "", group[pairs[k][2]].Name,
                  "index " \o group[pairs[k][2]].Name \o " has the same definition as "
                      \o group[pairs[k][1]].Name)]

RECURSIVE DuplicatesByOrder(_, _)
DuplicatesByOrder(indexes, order) ==
    IF order = <<>> THEN <<>>
    ELSE LET group == SelectSeq(indexes, LAMBDA x : tableKey(x.Schema, x.Table) = Head(order))
         IN DuplicatesInGroup(group) \o DuplicatesByOrder(indexes, Tail(order))

\* detectDuplicateIndexes; `order` is the order the map iteration takes
detectDuplicateIndexes(indexes, order) == DuplicatesByOrder(indexes, order)

\* opts with its zero thresholds replaced by the defaults
WithDefaults(opts) ==
    [opts EXCEPT
       !.VacuumDays = IF @ <= 0 THEN DefaultAuditOptions.VacuumDays ELSE @,
       !.UnusedIndexMinBytes = IF @ <= 0 THEN DefaultAuditOptions.UnusedIndexMinBytes ELSE @,
       !.BloatMinBytes = IF @ <= 0 THEN DefaultAuditOptions.BloatMinBytes ELSE @]

\* stats rows handed on without the exclusion test
UnfilteredStats(snap, opts) == snap.Stats

FilteredStats(snap, opts) ==
    SelectSeq(snap.Stats, LAMBDA s : ~Excluded(opts, s.Schema, s.Name))

FilteredTables(snap, opts) ==
    SelectSeq(snap.Tables, LAMBDA t : ~Excluded(opts, t.Schema, t.Name))
FilteredIndexes(snap, opts) ==
    SelectSeq(snap.Indexes, LAMBDA x : ~Excluded(opts, x.Schema, x.Table))

\* Audit(snap, opts)
Audit(snap, opts, order) ==
    LET o == WithDefaults(opts)
        filteredStats == FilteredStats(snap, o)
        filteredTables == FilteredTables(snap, o)
        filteredIndexes == FilteredIndexes(snap, o)
    IN detectUnusedTables(filteredStats)
       \o detectUnusedIndexes(filteredIndexes, o.UnusedIndexMinBytes)
       \o detectBloatedIndexes(filteredIndexes, snap.Tables, o.BloatMinBytes)
       \o detectMissingVacuum(filteredStats, o.VacuumDays * 24)
       \o detectNoPrimaryKey(filteredTables, snap.Constraints)
       \o detectDuplicateIndexes(filteredIndexes, order)

\* the scanner results Diff is given: Tables is sorted and duplicate-free,
\* ColumnRefs are as written in the code
DiffScans ==
    { [Tables |-> <<>>, ColumnRefs |-> <<>>],
      [Tables |-> <<"orders", "users">>,
       ColumnRefs |-> << [Table |-> "users", Column |-> "nick", Context |-> "SELECT"],
                         [Table |-> "Users", Column |-> "Nick", Context |-> "SELECT"] >>],
      [Tables |-> <<"users">>,
       ColumnRefs |-> << [Table |-> "users", Column |-> "email", Context |-> "WHERE"],
                         [Table |-> "", Column |-> "ID", Context |-> "SELECT"],
                         [Table |-> "Orders", Column |-> "ID", Context |-> "ORDER_BY"] >>],
      [Tables |-> <<"Users", "orders">>,
       ColumnRefs |-> << [Table |-> "Users", Column |-> "nick", Context |-> "ORDER_BY"] >>],
      [Tables |-> <<"logs">>, ColumnRefs |-> <<>>] }

\* dbTables[lower]: the last table of that lowercased name wins
DbTableIdx(snap, lower) == {i \in 1..Len(snap.Tables) : ToLower(snap.Tables[i].Name) = lower}
DbTable(snap, lower) ==
    snap.Tables[CHOOSE i \in DbTableIdx(snap, lower) : \A j \in DbTableIdx(snap, lower) : i >= j]

\* statsMap[lower], the zero TableStats when the key is absent
StatsOf(snap, lower) ==
    LET at == {i \in 1..Len(snap.Stats) : ToLower(snap.Stats[i].Name) = lower}
    IN IF at = {} THEN [SeqScan |-> 0, IdxScan |-> 0]
       ELSE snap.Stats[CHOOSE i \in at : \A j \in at : i >= j]

\* a first loop of Diff that looks the name up as it is written in the code
DiffTablesCaseSensitive(scan, snap) ==
    [k \in 1..Len(scan.Tables) |->
        LET tableName == scan.Tables[k]
            at == {i \in 1..Len(snap.Tables) : snap.Tables[i].Name = tableName}
        IN IF at = {}
           THEN Finding("MISSING_TABLE", SeverityHigh, "", tableName, "", "",
                        "table " \o tableName \o " referenced in code but does not exist in database")
           ELSE Finding("CODE_MATCH", SeverityInfo,
                        snap.Tables[CHOOSE i \in at : \A j \in at : i >= j].Schema,
                        tableName, "", "",
                        "table " \o tableName \o " exists in database and is referenced in code")]

\* the first loop of Diff: one MISSING_TABLE or CODE_MATCH per scanned table
DiffTables(scan, snap) ==
    [k \in 1..Len(scan.Tables) |->
        LET tableName == scan.Tables[k]
            lower == ToLower(tableName)
        IN IF DbTableIdx(snap, lower) = {}
           THEN Finding("MISSING_TABLE", SeverityHigh, "", tableName, "", "",
                        "table " \o tableName \o " referenced in code but does not exist in database")
           ELSE Finding("CODE_MATCH", SeverityInfo, DbTable(snap, lower).Schema, tableName, "", "",
                        "table " \o tableName \o " exists in database and is referenced in code")]

\* the key of the seenCols and dbColumns maps
ColKey(table, column) == ToLower(table) \o "." \o ToLower(column)

\* the second loop of Diff: MISSING_COLUMN, once per lowercased table.column
DiffColumns(scan, snap) ==
    LET refs == scan.ColumnRefs
        checked(k) == /\ ToLower(refs[k].Table) # ""
                      /\ DbTableIdx(snap, ToLower(refs[k].Table)) # {}
        first(k) == \A j \in 1..(k - 1) :
                        checked(j) => ColKey(refs[j].Table, refs[j].Column)
                                        # ColKey(refs[k].Table, refs[k].Column)
        inDb(k) == \E c \in 1..Len(snap.Columns) :
                       ColKey(snap.Columns[c].Table, snap.Columns[c].Name)
                         = ColKey(refs[k].Table, refs[k].Column)
        hit == SelectSeq([k \in 1..Len(refs) |-> k],
                         LAMBDA k : checked(k) /\ first(k) /\ ~inDb(k))
    IN [h \in 1..Len(hit) |->
          Finding("MISSING_COLUMN", SeverityMedium,
                  DbTable(snap, ToLower(refs[hit[h]].Table)).Schema,
                  refs[hit[h]].Table, refs[hit[h]].Column, "",
                  "column " \o refs[hit[h]].Column \o " referenced in code but does not exist")]

\* the third loop of Diff: idle tables no code refers to
DiffUnreferenced(scan, snap) ==
    LET codeRefs == {ToLower(scan.Tables[i]) : i \in 1..Len(scan.Tables)}
        hit == SelectSeq(snap.Tables, LAMBDA t :
                   /\ ToLower(t.Name) \notin codeRefs
                   /\ StatsOf(snap, ToLower(t.Name)).SeqScan = 0
                   /\ StatsOf(snap, ToLower(t.Name)).IdxScan = 0)
    IN [k \in 1..Len(hit) |->
          Finding("UNREFERENCED_TABLE", SeverityLow, hit[k].Schema, hit[k].Name, "", "",
                  "table " \o hit[k].Name \o " exists in database with no activity")]

\* Diff(scan, snap, opts)
Diff(scan, snap, opts, order) ==
    DiffTables(scan, snap) \o DiffColumns(scan, snap) \o DiffUnreferenced(scan, snap)
      \o Audit(snap, opts, order)

(***************************************************************************)
(* The multi-line SQL buffer of the scanner.  A line of a file is the      *)
(* sequence of its lexical pieces: words, single punctuation characters    *)
(* and single white-space characters; the two triple quotes are one piece  *)
(* each.                                                                   *)
(***************************************************************************)

MaxLines == 3

\* blockKind
blockNone == "none"
blockSQL == "sql"
blockBacktick == "backtick"
blockTripleQuote == "triplequote"

backtickExts == {".go", ".js", ".ts", ".jsx", ".tsx"}
tripleQuoteExts == {".py", ".java"}

\* the characters normalize treats as white space
WhiteSpace == {" ", "\t", "\n", "\r"}

\* the backtick character, written by name
Backtick == "BACKTICK"

TripleDouble == "\"\"\""
TripleSingle == "'''"

\* newSQLBuffer(), and the state reset() leaves
newSQLBuffer == [kind |-> blockNone, lines |-> <<>>, startLine |-> 0]

\* bufferedStatement
bufferedStatement(text, lineNum) == [text |-> text, lineNum |-> lineNum]

\* the element of a one-element set: Only({F(v) : v \in {e}}) is F(e) with e
\* evaluated once
Only(S) == CHOOSE v \in S : TRUE

\* strings.Join(lines, " ")
RECURSIVE JoinLines(_)
JoinLines(lines) ==
    IF lines = <<>> THEN <<>>
    ELSE IF Len(lines) = 1 THEN lines[1]
    ELSE lines[1] \o <<" ">> \o JoinLines(Tail(lines))

\* the loop of normalize: a white-space character is written as one blank
\* unless the character before it was white space too
CollapseSpace(text) ==
    Only({ [k \in 1..Len(keep) |-> IF text[keep[k]] \in WhiteSpace THEN " " ELSE text[keep[k]]] :
             keep \in {SelectSeq([k \in 1..Len(text) |-> k],
                                 LAMBDA k : \/ text[k] \notin WhiteSpace
                                            \/ k = 1
                                            \/ text[k - 1] \notin WhiteSpace)} })

\* strings.TrimSpace on a text
RECURSIVE TrimLeft(_)
TrimLeft(text) ==
    IF text # <<>> /\ Head(text) \in WhiteSpace THEN TrimLeft(Tail(text)) ELSE text
RECURSIVE TrimRight(_)
TrimRight(text) ==
    IF text # <<>> /\ text[Len(text)] \in WhiteSpace
    THEN TrimRight(SubSeq(text, 1, Len(text) - 1)) ELSE text
TrimText(text) == TrimRight(TrimLeft(text))

\* normalize: join the lines and collapse white space
normalize(lines) ==
    Only({ Only({TrimText(text) : text \in {CollapseSpace(joined)}}) :
             joined \in {JoinLines(lines)} })

\* the loop of splitOnSemicolons from position i on
RECURSIVE SplitFrom(_, _, _, _, _)
SplitFrom(line, i, inQuote, current, parts) ==
    IF i > Len(line) THEN Append(parts, current)
    ELSE IF line[i] = "'"
         THEN IF inQuote /\ i + 1 <= Len(line) /\ line[i + 1] = "'"
              THEN SplitFrom(line, i + 2, inQuote, current \o <<"'", "'">>, parts)
              ELSE SplitFrom(line, i + 1, ~inQuote, Append(current, "'"), parts)
         ELSE IF line[i] = ";" /\ ~inQuote
              THEN SplitFrom(line, i + 1, inQuote, <<>>, Append(parts, current))
              ELSE SplitFrom(line, i + 1, inQuote, Append(current, line[i]), parts)

splitOnSemicolons(line) == SplitFrom(line, 1, FALSE, <<>>, <<>>)

\* positions of the backticks not preceded by a backslash
UnescapedBackticks(line) ==
    {i \in 1..Len(line) : line[i] = Backtick /\ ~(i > 1 /\ line[i - 1] = "\\")}

opensBacktickBlock(line) == Cardinality(UnescapedBackticks(line)) % 2 = 1

containsBacktick(line) == UnescapedBackticks(line) # {}

\* position of the first occurrence of a delimiter, 0 if none
IndexOf(line, delim) ==
    LET at == {i \in 1..Len(line) : line[i] = delim}
    IN IF at = {} THEN 0 ELSE CHOOSE i \in at : \A j \in at : i <= j

opensTripleQuoteBlock(line) ==
    \E delim \in {TripleDouble, TripleSingle} :
        /\ IndexOf(line, delim) > 0
        /\ IndexOf(SubSeq(line, IndexOf(line, delim) + 1, Len(line)), delim) = 0

containsTripleQuote(line) ==
    IndexOf(line, TripleDouble) > 0 \/ IndexOf(line, TripleSingle) > 0

extractAfterBacktick(line) ==
    LET at == UnescapedBackticks(line)
    IN IF at = {} THEN line
       ELSE SubSeq(line, (CHOOSE i \in at : \A j \in at : i <= j) + 1, Len(line))

extractAfterTripleQuote(line) ==
    IF IndexOf(line, TripleDouble) > 0
    THEN SubSeq(line, IndexOf(line, TripleDouble) + 1, Len(line))
    ELSE IF IndexOf(line, TripleSingle) > 0
         THEN SubSeq(line, IndexOf(line, TripleSingle) + 1, Len(line))
         ELSE line

trimAtBacktick(text) ==
    LET at == UnescapedBackticks(text)
    IN IF at = {} THEN text
       ELSE SubSeq(text, 1, (CHOOSE i \in at : \A j \in at : i <= j) - 1)

trimAtTripleQuote(text) ==
    IF IndexOf(text, TripleDouble) > 0
    THEN SubSeq(text, 1, IndexOf(text, TripleDouble) - 1)
    ELSE IF IndexOf(text, TripleSingle) > 0
         THEN SubSeq(text, 1, IndexOf(text, TripleSingle) - 1)
         ELSE text

\* the loop of feedSQL over the parts of a line that holds a semicolon;
\* st = [buf, results]
RECURSIVE FeedParts(_, _, _, _)
FeedParts(st, parts, i, lineNum) ==
    IF i > Len(parts) THEN st
    ELSE IF i < Len(parts)
         THEN Only({ FeedParts(next, parts, i + 1, lineNum) :
                next \in { [buf |-> [st.buf EXCEPT !.lines = <<>>, !.startLine = lineNum],
                            results |-> IF text # <<>>
                                        THEN Append(st.results,
                                                    bufferedStatement(text, st.buf.startLine))
                                        ELSE st.results] :
                           text \in {normalize(Append(st.buf.lines, parts[i]))} } })
         ELSE IF TrimText(parts[i]) # <<>>
              THEN [st EXCEPT !.buf.lines = <<parts[i]>>, !.buf.startLine = lineNum]
              ELSE [st EXCEPT !.buf.lines = <<>>, !.buf.kind = blockNone]

\* sqlBuffer.feedSQL: [buf |-> the buffer afterwards, results |-> statements]
feedSQL(b, lineNum, line) ==
    Only({ IF Len(parts) = 1
           THEN [buf |-> [kind |-> IF Len(b.lines) = 0 THEN blockSQL ELSE b.kind,
                          lines |-> Append(b.lines, line),
                          startLine |-> IF Len(b.lines) = 0 THEN lineNum ELSE b.startLine],
                 results |-> <<>>]
           ELSE FeedParts([buf |-> IF Len(b.lines) = 0
                                   THEN [b EXCEPT !.startLine = lineNum, !.kind = blockSQL]
                                   ELSE b,
                           results |-> <<>>], parts, 1, lineNum) :
             parts \in {splitOnSemicolons(line)} })

\* sqlBuffer.feedCode: [buf, stmt |-> the statement if one completed,
\* buffered |-> whether the line went into the buffer]
feedCode(b, lineNum, line, ext) ==
    IF b.kind # blockNone
    THEN IF b.kind = blockBacktick /\ containsBacktick(line)
         THEN Only({ [buf |-> newSQLBuffer,
                      stmt |-> <<bufferedStatement(trimAtBacktick(text), b.startLine)>>,
                      buffered |-> TRUE] :
                       text \in {normalize(Append(b.lines, line))} })
         ELSE IF b.kind = blockTripleQuote /\ containsTripleQuote(line)
              THEN Only({ [buf |-> newSQLBuffer,
                           stmt |-> <<bufferedStatement(trimAtTripleQuote(text), b.startLine)>>,
                           buffered |-> TRUE] :
                            text \in {normalize(Append(b.lines, line))} })
              ELSE [buf |-> [b EXCEPT !.lines = Append(b.lines, line)], stmt |-> <<>>,
                    buffered |-> TRUE]
    ELSE IF ext \in backtickExts /\ opensBacktickBlock(line)
         THEN [buf |-> [kind |-> blockBacktick, lines |-> <<extractAfterBacktick(line)>>,
                        startLine |-> lineNum],
               stmt |-> <<>>, buffered |-> TRUE]
         ELSE IF ext \in tripleQuoteExts /\ opensTripleQuoteBlock(line)
              THEN [buf |-> [kind |-> blockTripleQuote,
                             lines |-> <<extractAfterTripleQuote(line)>>,
                             startLine |-> lineNum],
                    stmt |-> <<>>, buffered |-> TRUE]
              ELSE [buf |-> b, stmt |-> <<>>, buffered |-> FALSE]

\* a flush that drops what the buffer holds
flushDropping(b) == [buf |-> newSQLBuffer, stmt |-> <<>>]

\* sqlBuffer.flush
flush(b) ==
    IF Len(b.lines) = 0 THEN [buf |-> b, stmt |-> <<>>]
    ELSE Only({ [buf |-> newSQLBuffer,
                 stmt |-> IF text = <<>> THEN <<>>
                          ELSE <<bufferedStatement(text, b.startLine)>>] :
                  text \in {normalize(b.lines)} })

(***************************************************************************)
(* The reference patterns of the scanner.  A regular expression is the     *)
(* sequence of its elements, matched against the pieces of a text; an      *)
(* optional group gives two alternatives, the one with the group first.    *)
(***************************************************************************)

\* the pieces that are not words (\w+)
Punctuation ==
    WhiteSpace \cup {".", ",", "(", ")", "*", "=", "<", ">", "!", ";", ":", "+", "'", "\"",
                     "\\", Backtick, TripleDouble, TripleSingle, "@@map"}
IsWord(t) == t \notin Punctuation

\* strings.ToLower, strings.ToUpper and the concatenation of a text's pieces
RECURSIVE Cat(_)
Cat(text) == IF text = <<>> THEN "" ELSE Head(text) \o Cat(Tail(text))
LowerText(text) == Cat([k \in 1..Len(text) |-> ToLower(text[k])])

\* elements of a pattern
Kw(w) == [k |-> "kw", w |-> w]
Lit(w) == [k |-> "lit", w |-> w]
Ws == [k |-> "ws", w |-> ""]
WsOpt == [k |-> "ws*", w |-> ""]
Cap == [k |-> "cap", w |-> ""]
Word == [k |-> "word", w |-> ""]
Quote == [k |-> "quote", w |-> ""]
AnyRun == [k |-> "any*", w |-> ""]
KwIn(ws) == [k |-> "kwin", w |-> ws]
LitIn(ws) == [k |-> "litin", w |-> ws]
LazyCap == [k |-> "lazy", w |-> ""]
NotParenCap == [k |-> "notparen", w |-> ""]

\* the length of the run of pieces other than ")" that starts at position i
RECURSIVE RunNotParen(_, _)
RunNotParen(toks, i) ==
    IF i <= Len(toks) /\ toks[i] # ")" THEN 1 + RunNotParen(toks, i + 1) ELSE 0

NoMatch == [ok |-> FALSE, end |-> 0, caps |-> <<>>]

\* the first position from i on that holds no white space
RECURSIVE SkipWs(_, _)
SkipWs(toks, i) ==
    IF i <= Len(toks) /\ toks[i] \in WhiteSpace THEN SkipWs(toks, i + 1) ELSE i

\* match of a sequence of elements at position i: [ok, end, caps], end being
\* the position after the match
RECURSIVE MatchSeq(_, _, _, _)
MatchSeq(elems, toks, i, caps) ==
    IF elems = <<>> THEN [ok |-> TRUE, end |-> i, caps |-> caps]
    ELSE LET e == Head(elems)
             rest == Tail(elems)
             has == i <= Len(toks)
         IN CASE e.k = "kw" ->
                   IF has /\ IsWord(toks[i]) /\ ToUpper(toks[i]) = e.w
                   THEN MatchSeq(rest, toks, i + 1, caps) ELSE NoMatch
              [] e.k = "lit" ->
                   IF has /\ toks[i] = e.w
                   THEN MatchSeq(rest, toks, i + 1, caps) ELSE NoMatch
              [] e.k = "ws" ->
                   IF has /\ toks[i] \in WhiteSpace
                   THEN MatchSeq(rest, toks, SkipWs(toks, i), caps) ELSE NoMatch
              [] e.k = "ws*" -> MatchSeq(rest, toks, SkipWs(toks, i), caps)
              [] e.k = "cap" ->
                   IF has /\ IsWord(toks[i])
                   THEN MatchSeq(rest, toks, i + 1, Append(caps, toks[i])) ELSE NoMatch
              [] e.k = "word" ->
                   IF has /\ IsWord(toks[i])
                   THEN MatchSeq(rest, toks, i + 1, caps) ELSE NoMatch
              [] e.k = "quote" ->
                   IF has /\ toks[i] \in {"'", "\""}
                   THEN MatchSeq(rest, toks, i + 1, caps) ELSE NoMatch
              [] e.k = "kwin" ->
                   IF has /\ IsWord(toks[i]) /\ ToUpper(toks[i]) \in e.w
                   THEN MatchSeq(rest, toks, i + 1, caps) ELSE NoMatch
              [] e.k = "litin" ->
                   IF has /\ toks[i] \in e.w
                   THEN MatchSeq(rest, toks, i + 1, caps) ELSE NoMatch
              [] e.k = "lazy" ->
                   LET js == {j \in i..Len(toks) : MatchSeq(rest, toks, j + 1, caps).ok}
                       j == CHOOSE j \in js : \A h \in js : j <= h
                   IN IF js = {} THEN NoMatch
                      ELSE MatchSeq(rest, toks, j + 1, Append(caps, SubSeq(toks, i, j)))
              [] e.k = "notparen" ->
                   LET n == RunNotParen(toks, i)
                   IN IF n = 0 THEN NoMatch
                      ELSE MatchSeq(rest, toks, i + n, Append(caps, SubSeq(toks, i, i + n - 1)))
              [] OTHER ->
                   LET js == {j \in i..(Len(toks) + 1) : MatchSeq(rest, toks, j, caps).ok}
                   IN IF js = {} THEN NoMatch
                      ELSE MatchSeq(rest, toks, CHOOSE j \in js : \A h \in js : j >= h, caps)

\* the first alternative that matches at position i
RECURSIVE MatchAlts(_, _, _)
MatchAlts(alts, toks, i) ==
    IF alts = <<>> THEN NoMatch
    ELSE Only({ IF m.ok THEN m ELSE MatchAlts(Tail(alts), toks, i) :
                  m \in {MatchSeq(Head(alts), toks, i, <<>>)} })

\* FindAllStringSubmatch: the captures of the successive matches, leftmost
\* first and not overlapping
RECURSIVE FindAll(_, _, _)
FindAll(alts, toks, i) ==
    IF i > Len(toks) THEN <<>>
    ELSE Only({ IF m.ok THEN <<m.caps>> \o FindAll(alts, toks, m.end)
                ELSE FindAll(alts, toks, i + 1) :
                  m \in {MatchAlts(alts, toks, i)} })

PatternSQL == "sql"
PatternORM == "orm"
PatternMigration == "migration"

ContextSelect == "SELECT"
ContextInsert == "INSERT"
ContextUpdate == "UPDATE"
ContextDelete == "DELETE"
ContextDDL == "DDL"
ContextUnknown == "UNKNOWN"

Dotted == <<Cap, Lit("."), Cap>>
Plain == <<Cap>>
pattern(alts, schemaGroup, tableGroup, patType, context) ==
    [alts |-> alts, schemaGroup |-> schemaGroup, tableGroup |-> tableGroup,
     patType |-> patType, context |-> context]

\* the compiled table patterns, in their order
patterns ==
    << pattern(<<<<Kw("FROM"), Ws>> \o Dotted>>, 1, 2, PatternSQL, ContextSelect),
       pattern(<<<<Kw("FROM"), Ws>> \o Plain>>, 0, 1, PatternSQL, ContextSelect),
       pattern(<<<<Kw("JOIN"), Ws>> \o Dotted>>, 1, 2, PatternSQL, ContextSelect),
       pattern(<<<<Kw("JOIN"), Ws>> \o Plain>>, 0, 1, PatternSQL, ContextSelect),
       pattern(<<<<Kw("INSERT"), Ws, Kw("INTO"), Ws>> \o Dotted>>, 1, 2,
               PatternSQL, ContextInsert),
       pattern(<<<<Kw("INSERT"), Ws, Kw("INTO"), Ws>> \o Plain>>, 0, 1,
               PatternSQL, ContextInsert),
       pattern(<<<<Kw("UPDATE"), Ws>> \o Dotted \o <<Ws, Kw("SET")>>>>, 1, 2,
               PatternSQL, ContextUpdate),
       pattern(<<<<Kw("UPDATE"), Ws>> \o Plain \o <<Ws, Kw("SET")>>>>, 0, 1,
               PatternSQL, ContextUpdate),
       pattern(<<<<Kw("DELETE"), Ws, Kw("FROM"), Ws>> \o Dotted>>, 1, 2,
               PatternSQL, ContextDelete),
       pattern(<<<<Kw("DELETE"), Ws, Kw("FROM"), Ws>> \o Plain>>, 0, 1,
               PatternSQL, ContextDelete),
       pattern(<<<<Lit("__tablename__"), WsOpt, Lit("="), WsOpt, Quote, Cap, Quote>>>>, 0, 1,
               PatternORM, ContextUnknown),
       pattern(<<<<Lit("db_table"), WsOpt, Lit("="), WsOpt, Quote, Cap, Quote>>>>, 0, 1,
               PatternORM, ContextUnknown),
       pattern(<<<<Lit("TableName"), Lit("("), Lit(")"), WsOpt, AnyRun, Lit("return"), WsOpt,
                   Quote, Cap, Quote>>>>, 0, 1, PatternORM, ContextUnknown),
       pattern(<<<<Lit("."), Lit("Table"), Lit("("), Quote, Cap, Quote, Lit(")")>>>>, 0, 1,
               PatternORM, ContextUnknown),
       pattern(<<<<Lit("@@map"), Lit("("), Quote, Cap, Quote, Lit(")")>>>>, 0, 1,
               PatternORM, ContextUnknown),
       pattern(<< <<Kw("CREATE"), Ws, Kw("TABLE"), Ws, Kw("IF"), Ws, Kw("NOT"), Ws,
                    Kw("EXISTS"), Ws>> \o Dotted,
                  <<Kw("CREATE"), Ws, Kw("TABLE"), Ws>> \o Dotted >>, 1, 2,
               PatternMigration, ContextDDL),
       pattern(<< <<Kw("CREATE"), Ws, Kw("TABLE"), Ws, Kw("IF"), Ws, Kw("NOT"), Ws,
                    Kw("EXISTS"), Ws>> \o Plain,
                  <<Kw("CREATE"), Ws, Kw("TABLE"), Ws>> \o Plain >>, 0, 1,
               PatternMigration, ContextDDL),
       pattern(<< <<Kw("ALTER"), Ws, Kw("TABLE"), Ws, Kw("IF"), Ws, Kw("EXISTS"), Ws>>
                      \o Dotted,
                  <<Kw("ALTER"), Ws, Kw("TABLE"), Ws>> \o Dotted >>, 1, 2,
               PatternMigration, ContextDDL),
       pattern(<< <<Kw("ALTER"), Ws, Kw("TABLE"), Ws, Kw("IF"), Ws, Kw("EXISTS"), Ws>>
                      \o Plain,
                  <<Kw("ALTER"), Ws, Kw("TABLE"), Ws>> \o Plain >>, 0, 1,
               PatternMigration, ContextDDL),
       pattern(<< <<Kw("DROP"), Ws, Kw("TABLE"), Ws, Kw("IF"), Ws, Kw("EXISTS"), Ws>>
                      \o Plain,
                  <<Kw("DROP"), Ws, Kw("TABLE"), Ws>> \o Plain >>, 0, 1,
               PatternMigration, ContextDDL),
       pattern(<< <<Kw("CREATE"), Ws, Kw("UNIQUE"), Ws, Kw("INDEX"), Ws, Word, Ws, Kw("ON"),
                    Ws>> \o Plain,
                  <<Kw("CREATE"), Ws, Kw("INDEX"), Ws, Word, Ws, Kw("ON"), Ws>> \o Plain >>,
               0, 1, PatternMigration, ContextDDL) >>

\* SQL keywords that are not taken as table names
sqlKeywords ==
    {"select", "from", "where", "and", "or", "not", "in", "is", "null", "as", "on", "set",
     "values", "into", "join", "left", "right", "inner", "outer", "cross", "full", "group",
     "by", "order", "having", "limit", "offset", "union", "all", "distinct", "case", "when",
     "then", "else", "end", "exists", "between", "like", "true", "false", "table", "index",
     "create", "alter", "drop", "insert", "update", "delete", "begin", "commit", "rollback",
     "if", "with", "returning", "sqlalchemy", "django", "gorm", "prisma", "import",
     "package", "require", "include"}

\* an isValidTableName that compares the name as written
isValidTableNameCaseSensitive(name) ==
    /\ ~(Len(name) < 2 \/ Len(name) > 120)
    /\ name \notin sqlKeywords

isValidTableName(name) ==
    /\ ~(Len(name) < 2 \/ Len(name) > 120)
    /\ ToLower(name) \notin sqlKeywords

tableMatch(table, schema, patType, context) ==
    [Table |-> table, Schema |-> schema, Pattern |-> patType, Context |-> context]

\* the concatenation of a sequence of sequences
RECURSIVE Flatten(_)
Flatten(seqs) == IF seqs = <<>> THEN <<>> ELSE Head(seqs) \o Flatten(Tail(seqs))

\* the body of the loop of ScanLine over the patterns: the matches of one
\* pattern, the ones with an invalid table name left out
TableMatchesOf(p, line) ==
    Only({ [k \in 1..Len(valid) |->
              tableMatch(valid[k][p.tableGroup],
                         IF p.schemaGroup > 0 /\ p.schemaGroup < Len(valid[k]) + 1
                         THEN valid[k][p.schemaGroup] ELSE "",
                         p.patType, p.context)] :
             valid \in {SelectSeq(FindAll(p.alts, line, 1),
                                  LAMBDA m : isValidTableName(m[p.tableGroup]))} })

\* the matches of all patterns in the order ScanLine visits them
TableCandidates(ps, line) ==
    Only({ Flatten(found) :
             found \in {[n \in 1..Len(ps) |->
                           Only({TableMatchesOf(p, line) : p \in {ps[n]}})]} })

\* the key of the `seen` map of ScanLine
TableSeenKey(m) == m.Schema \o "." \o m.Table \o m.Context

\* a ScanLine without the `seen` map
ScanLineKeepingRepeats(line) == TableCandidates(patterns, line)

\* ScanLine: the first match of every key
ScanLine(line) ==
    Only({ Only({ [k \in 1..Len(first) |-> c[first[k]]] :
                    first \in {SelectSeq([k \in 1..Len(c) |-> k],
                                         LAMBDA k : \A j \in 1..(k - 1) :
                                                       TableSeenKey(c[j]) # TableSeenKey(c[k]))} }) :
             c \in {TableCandidates(patterns, line)} })

(***************************************************************************)
(* Column references.  A column name is the text of its pieces.            *)
(***************************************************************************)

\* the compiled column patterns, in their order
columnPatterns ==
    << [alts |-> <<Dotted>>, extract |-> "dotted"],
       [alts |-> <<<<Kw("SELECT"), Ws, LazyCap, Ws, Kw("FROM"), Ws>>>>, extract |-> "select"],
       [alts |-> << <<KwIn({"WHERE", "AND", "OR"}), Ws, Cap, WsOpt, LitIn({"=", "<", ">"})>>,
                    <<KwIn({"WHERE", "AND", "OR"}), Ws, Cap, WsOpt, Lit("!"), Lit("=")>>,
                    <<KwIn({"WHERE", "AND", "OR"}), Ws, Cap, WsOpt,
                      KwIn({"IS", "IN", "LIKE", "BETWEEN", "NOT"})>> >>,
        extract |-> "condition"],
       [alts |-> <<<<KwIn({"ORDER", "GROUP"}), Ws, Kw("BY"), Ws, Cap>>>>, extract |-> "by"],
       [alts |-> <<<<Kw("INSERT"), Ws, Kw("INTO"), Ws, Word, WsOpt, Lit("("), NotParenCap,
                     Lit(")")>>>>, extract |-> "insert"] >>

\* SQL functions that are not taken as column names
sqlFunctions ==
    {"count", "sum", "avg", "min", "max", "coalesce", "nullif", "cast", "extract", "lower",
     "upper", "trim", "length", "now", "current_timestamp", "current_date", "row_number",
     "rank", "dense_rank", "array_agg", "string_agg", "json_agg", "exists", "not", "case"}

\* the first byte of a name is a digit, is an upper-case letter
StartsWithDigit(name) == name \in {"1", "2"}
StartsUpper(name) ==
    name \in {"SELECT", "FROM", "JOIN", "WHERE", "ORDER", "BY", "INSERT", "INTO", "VALUES",
              "Select", "Count"}

\* isValidColumnName, of a name given by its pieces
isValidColumnName(name) ==
    /\ ~(Len(Cat(name)) < 2 \/ Len(Cat(name)) > 120)
    /\ LowerText(name) \notin sqlKeywords \cup sqlFunctions
    /\ ~StartsWithDigit(Head(name))

columnMatch(table, column, context) ==
    [Table |-> table, Column |-> column, Schema |-> "", Context |-> context]

extractDottedColumn(m) ==
    IF ~isValidTableName(m[1]) \/ ~isValidColumnName(<<m[2]>>) THEN <<>>
    ELSE IF StartsUpper(m[2]) THEN <<>>
    ELSE <<columnMatch(m[1], m[2], ContextUnknown)>>

\* strings.Split(text, ",")
RECURSIVE SplitAtComma(_, _)
SplitAtComma(text, current) ==
    IF text = <<>> THEN <<current>>
    ELSE IF Head(text) = "," THEN <<current>> \o SplitAtComma(Tail(text), <<>>)
    ELSE SplitAtComma(Tail(text), Append(current, Head(text)))

\* strings.Index(strings.ToUpper(col), " AS ") and strings.Index(col, "."),
\* as a position among the pieces, 0 when there is none
IndexOfAs(col) ==
    LET S == {k \in 1..(Len(col) - 2) :
                col[k] = " " /\ ToUpper(col[k + 1]) = "AS" /\ col[k + 2] = " "}
    IN IF S = {} THEN 0 ELSE CHOOSE k \in S : \A h \in S : k <= h
IndexOfDot(col) ==
    LET S == {k \in 1..Len(col) : col[k] = "."}
    IN IF S = {} THEN 0 ELSE CHOOSE k \in S : \A h \in S : k <= h

\* the column of one part of a SELECT list
SelectPart(part) ==
    Only({ LET dotIdx == IndexOfDot(col)
               table == SubSeq(col, 1, dotIdx - 1)
               colName == SubSeq(col, dotIdx + 1, Len(col))
           IN IF dotIdx > 1
              THEN IF LowerText(table) \notin sqlKeywords /\ isValidColumnName(colName)
                   THEN <<columnMatch(Cat(table), Cat(colName), ContextSelect)>> ELSE <<>>
              ELSE IF isValidColumnName(col)
                   THEN <<columnMatch("", Cat(col), ContextSelect)>>
                   ELSE <<>> :
             col \in { IF IndexOfAs(trimmed) > 1
                       THEN TrimText(SubSeq(trimmed, 1, IndexOfAs(trimmed) - 1))
                       ELSE trimmed : trimmed \in {TrimText(part)} } })

extractSelectColumns(m) ==
    IF \E k \in 1..Len(m[1]) : m[1][k] = "*" THEN <<>>
    ELSE Only({ Flatten(cols) :
                  cols \in { [k \in 1..Len(parts) |-> SelectPart(parts[k])] :
                             parts \in {SplitAtComma(m[1], <<>>)} } })

extractConditionColumn(m) ==
    IF ~isValidColumnName(<<m[1]>>) THEN <<>> ELSE <<columnMatch("", m[1], ContextSelect)>>

extractByColumn(m) ==
    IF ~isValidColumnName(<<m[1]>>) THEN <<>> ELSE <<columnMatch("", m[1], ContextSelect)>>

InsertPart(part) ==
    IF isValidColumnName(TrimText(part))
    THEN <<columnMatch("", Cat(TrimText(part)), ContextInsert)>> ELSE <<>>

extractInsertColumns(m) ==
    Only({ Flatten(cols) :
             cols \in { [k \in 1..Len(parts) |-> InsertPart(parts[k])] :
                        parts \in {SplitAtComma(m[1], <<>>)} } })

extract(name, m) ==
    CASE name = "dotted" -> extractDottedColumn(m)
      [] name = "select" -> extractSelectColumns(m)
      [] name = "condition" -> extractConditionColumn(m)
      [] name = "by" -> extractByColumn(m)
      [] OTHER -> extractInsertColumns(m)

\* the body of the loop of ScanLineColumns over the patterns: the column
\* matches of one pattern
ColumnMatchesOf(p, line) ==
    Only({ Flatten(found) :
             found \in { [k \in 1..Len(ms) |-> extract(p.extract, ms[k])] :
                         ms \in {FindAll(p.alts, line, 1)} } })

\* the column matches of all patterns in the order ScanLineColumns visits them
ColumnCandidates(ps, line) ==
    Only({ Flatten(found) :
             found \in {[n \in 1..Len(ps) |->
                           Only({ColumnMatchesOf(p, line) : p \in {ps[n]}})]} })

\* the key of the `seen` map of ScanLineColumns
ColumnSeenKey(cm) == cm.Table \o "." \o cm.Column

\* ScanLineColumns: the first match of every key
ScanLineColumns(line) ==
    Only({ Only({ [k \in 1..Len(first) |-> c[first[k]]] :
                    first \in {SelectSeq([k \in 1..Len(c) |-> k],
                                         LAMBDA k : \A j \in 1..(k - 1) :
                                                       ColumnSeenKey(c[j]) # ColumnSeenKey(c[k]))} }) :
             c \in {ColumnCandidates(columnPatterns, line)} })

(***************************************************************************)
(* Connecting to the catalog: connectWithRetry.  An error value is named   *)
(* by a string; the operators below say what errors.Is, errors.As and      *)
(* err.Error() give for it.  Durations are in milliseconds.                *)
(***************************************************************************)

maxRetries == 3
baseDelay == 1000
maxJitter == 500

authErrorCode == "28P01"
invalidAuthSpecCode == "28000"
tooManyConnections == "53300"
cannotConnectNowCode == "57P03"

\* a nil error
Nil == "nil"

\* ctx.Err() of a context that is done
ContextErrors == {"context canceled", "context deadline exceeded"}

\* the errors a connection attempt returns
AttemptErrors ==
    {"ping: context canceled", "ping: context deadline exceeded",
     "connect: cannot parse not-a-url",
     "pg 28P01", "pg 28000", "pg 08006", "pg 53300", "pg 57P03", "pg 3D000",
     "dial: lookup db: no such host", "dial: connection refused",
     "password authentication failed", "lookup db: server misbehaving",
     "lookup db: temporary", "something unexpected"}

\* errors.Is(err, context.Canceled), errors.Is(err, context.DeadlineExceeded)
IsCanceled(err) == err \in {"context canceled", "ping: context canceled"}
IsDeadlineExceeded(err) ==
    err \in {"context deadline exceeded", "ping: context deadline exceeded"}

\* errors.As(err, &parseErr) for *pgconn.ParseConfigError
IsParseConfigError(err) == err = "connect: cannot parse not-a-url"

\* pgErr.Code when errors.As(err, &pgErr) holds, "" when it does not
PgCode(err) ==
    CASE err = "pg 28P01" -> "28P01"
      [] err = "pg 28000" -> "28000"
      [] err = "pg 08006" -> "08006"
      [] err = "pg 53300" -> "53300"
      [] err = "pg 57P03" -> "57P03"
      [] err = "pg 3D000" -> "3D000"
      [] OTHER -> ""

\* strings.HasPrefix(code, "08")
HasPrefix08(code) == code \in {"08000", "08001", "08003", "08004", "08006"}

\* the phrases of isRetryable that strings.ToLower(err.Error()) contains; the
\* phrase "cannot parse" stands for the source's phrase, which ends in a
\* backtick
Phrases(err) ==
    CASE err = "connect: cannot parse not-a-url" -> {"cannot parse"}
      [] err = "dial: lookup db: no such host" -> {"no such host"}
      [] err = "dial: connection refused" -> {"connection refused"}
      [] err = "password authentication failed" -> {"password authentication failed"}
      [] OTHER -> {}

\* errors.As(err, &netErr) for *net.OpError
IsNetOpError(err) == err \in {"dial: lookup db: no such host", "dial: connection refused"}

\* errors.As(err, &dnsErr) for *net.DNSError, and dnsErr.IsTemporary
IsDNSError(err) ==
    err \in {"dial: lookup db: no such host", "lookup db: server misbehaving",
             "lookup db: temporary"}
IsTemporary(err) == err = "lookup db: temporary"

\* an isRetryable that retries everything but a cancelled context
isRetryableByDefault(err) == err # Nil /\ ~IsCanceled(err)

isRetryable(err) ==
    IF err = Nil THEN FALSE
    ELSE IF IsCanceled(err) THEN FALSE
    ELSE IF IsParseConfigError(err) THEN FALSE
    ELSE IF PgCode(err) # ""
         THEN IF PgCode(err) = authErrorCode \/ PgCode(err) = invalidAuthSpecCode THEN FALSE
              ELSE IF \/ HasPrefix08(PgCode(err))
                      \/ PgCode(err) = tooManyConnections
                      \/ PgCode(err) = cannotConnectNowCode
                   THEN TRUE
                   ELSE FALSE
    ELSE IF Phrases(err) \cap {"password authentication failed", "no pg_hba.conf entry",
                               "cannot parse", "failed to parse as keyword/value",
                               "failed to parse as url", "invalid keyword/value",
                               "no such host"} # {}
         THEN FALSE
    ELSE IF IsNetOpError(err) THEN TRUE
    ELSE IF \/ Phrases(err) \cap {"connection refused", "connection reset", "i/o timeout",
                                  "temporary failure in name resolution"} # {}
            \/ IsDeadlineExceeded(err)
         THEN TRUE
    ELSE IF IsDNSError(err) THEN IsTemporary(err)
    ELSE TRUE

\* baseDelay << attempt
RECURSIVE ShiftLeft(_, _)
ShiftLeft(d, n) == IF n = 0 THEN d ELSE ShiftLeft(2 * d, n - 1)

\* the values rand.Int64N(maxJitter) takes in the model
Jitters == {0, maxJitter - 1}

\* backoffDelay, for the jitter the random source gave
backoffDelay(attempt, jitter) == ShiftLeft(baseDelay, attempt) + jitter

VARIABLES
    tree,        \* the source tree: its files in walk order
    workersArg,  \* the workers argument of ScanParallel
    numCPU,      \* runtime.NumCPU()
    pcMain,      \* position of the goroutine that called ScanParallel
    paths,       \* phase 1: collected paths
    toSend,      \* paths the producer loop has not yet enqueued
    pathCh,      \* buffered channel of paths
    pathClosed,  \* close(pathCh) happened
    resultCh,    \* buffered channel of per-file results
    pathCap,     \* capacity pathCh was made with
    resultCap,   \* capacity resultCh was made with
    wg,          \* sync.WaitGroup counter
    spawned,     \* number of worker goroutines started
    wpc,         \* position of each worker goroutine
    wcur,        \* the per-file result a worker is about to send
    result       \* the ScanResult and error ScanParallel returns

scanIn == <<tree, workersArg, numCPU>>
scanMain == <<paths, toSend, pathClosed, pathCap, resultCap, spawned>>
scanVars == <<scanIn, pcMain, scanMain, pathCh, resultCh, wg, wpc, wcur, result>>


VARIABLES
    pcRun,             \* position of the audit/check command's RunE
    raw,               \* the findings the analyzer returned
    findings,          \* the command's `findings` variable
    minSeverity,       \* --min-severity
    typeFilter,        \* --type
    updateBaseline,    \* --update-baseline
    baselinePath,      \* --baseline
    failOn,            \* --fail-on as the command evaluates it
    fs,                \* the baseline files on disk, by path
    totalSuppressed,   \* findings dropped by the baseline and suppression filters
    baselineDropped,   \* the count n that Baseline.Filter returned in filterFindings
    report,            \* the reporter.Report handed to the writer
    runErr,            \* the error RunE returned, "" if none
    exitCode           \* the process exit code, -1 while running

runFlags == <<minSeverity, typeFilter, updateBaseline, baselinePath, failOn>>
runVars == <<pcRun, raw, findings, runFlags, fs, totalSuppressed, baselineDropped,
             report, runErr, exitCode>>


VARIABLES
    pcFp,      \* whether the fingerprints of the pair have been computed
    fpPair,    \* two findings
    fpResult   \* their fingerprints

fpVars == <<pcFp, fpPair, fpResult>>

VARIABLES
    pcAn,      \* whether the analyzer has run, and which entry point
    snap,      \* the catalog snapshot
    opts,      \* the AuditOptions
    scan,      \* the scanner result Diff was given
    found      \* the findings the analyzer returned

anVars == <<pcAn, snap, opts, scan, found>>

VARIABLES
    pcFile,    \* position of scanFile: reading lines, or returned
    fExt,      \* the lower-cased extension of the file
    fLines,    \* the lines read so far
    fLineNum,  \* lineNum
    fBuf,      \* the sqlBuffer
    fRefs,     \* refs
    fColRefs,  \* colRefs
    fScanned   \* the calls of scanText so far: text, line and what gave the text

fileVars == <<pcFile, fExt, fLines, fLineNum, fBuf, fRefs, fColRefs, fScanned>>

VARIABLES
    pcConn,     \* position of connectWithRetry: the loop head, the select, returned
    ctxErr,     \* ctx.Err(): nil until the context is done
    attempt,    \* the loop variable
    lastErr,    \* lastErr
    delay,      \* delay
    timerFired, \* the channel of time.After(delay) is ready
    calls,      \* the calls of newInspectorOnce so far: the error returned, ctx.Err() at the call
    waits,      \* the selects entered so far: after which call, the delay, how it ended
    connRet     \* what connectWithRetry returned

connVars == <<pcConn, ctxErr, attempt, lastErr, delay, timerFired, calls, waits, connRet>>

vars == <<scanVars, runVars, fpVars, anVars, fileVars, connVars>>

notScanVars == <<runVars, fpVars, anVars, fileVars, connVars>>
notRunVars == <<scanVars, fpVars, anVars, fileVars, connVars>>
notFpVars == <<scanVars, runVars, anVars, fileVars, connVars>>
notAnVars == <<scanVars, runVars, fpVars, fileVars, connVars>>
notFileVars == <<scanVars, runVars, fpVars, anVars, connVars>>

notConnVars == <<scanVars, runVars, fpVars, anVars, fileVars>>

\* a snapshot of an empty catalog and a scan of an empty repository
EmptySnapshot ==
    [Tables |-> <<>>, Columns |-> <<>>, Indexes |-> <<>>, Stats |-> <<>>, Constraints |-> <<>>]
NoScan == [Tables |-> <<>>, ColumnRefs |-> <<>>]

\* the analyzer is not run
AnalyzerOff ==
    /\ pcAn = "off"
    /\ snap = EmptySnapshot
    /\ opts = DefaultAuditOptions
    /\ scan = NoScan
    /\ found = <<>>


\* no file is being scanned
FileOff ==
    /\ pcFile = "off"
    /\ fExt = ""
    /\ fLines = <<>>
    /\ fLineNum = 0
    /\ fBuf = newSQLBuffer
    /\ fRefs = <<>>
    /\ fColRefs = <<>>
    /\ fScanned = <<>>

\* no connection is being made
ConnOff ==
    /\ pcConn = "off"
    /\ ctxErr = Nil
    /\ attempt = 0
    /\ lastErr = Nil
    /\ delay = 0
    /\ timerFired = FALSE
    /\ calls = <<>>
    /\ waits = <<>>
    /\ connRet = [inspector |-> FALSE, err |-> Nil]
Workers == 1..(IF MaxCPU > MaxWorkers THEN MaxCPU ELSE MaxWorkers)

\* workers <= 0 means runtime.NumCPU()
EffWorkers == IF workersArg <= 0 THEN numCPU ELSE workersArg

NoResult == [refs |-> <<>>, colRefs |-> <<>>, err |-> FALSE, filePath |-> 0]

\* the scanner before ScanParallel is called
ScanIdle ==
    /\ pcMain = "start"
    /\ paths = <<>>
    /\ toSend = <<>>
    /\ pathCh = <<>>
    /\ pathClosed = FALSE
    /\ resultCh = <<>>
    /\ pathCap = 0
    /\ resultCap = 0
    /\ wg = 0
    /\ spawned = 0
    /\ wpc = [w \in Workers |-> "unborn"]
    /\ wcur = [w \in Workers |-> NoResult]
    /\ result = EmptyResult

\* no audit or check command runs
RunOff ==
    /\ pcRun = "off"
    /\ raw = <<>>
    /\ findings = <<>>
    /\ minSeverity = ""
    /\ typeFilter = ""
    /\ updateBaseline = ""
    /\ baselinePath = ""
    /\ failOn = ""
    /\ fs = [p \in Paths |-> NoFile]
    /\ totalSuppressed = 0
    /\ baselineDropped = 0
    /\ report = NoReport
    /\ runErr = ""
    /\ exitCode = -1

\* no fingerprint is being computed
FpOff ==
    /\ pcFp = "off"
    /\ fpPair = <<>>
    /\ fpResult = <<>>

ScanInit ==
    /\ RunOff
    /\ AnalyzerOff
    /\ FileOff
    /\ ConnOff
    /\ FpOff
    /\ tree \in Trees
    /\ workersArg \in 0..MaxWorkers
    /\ numCPU \in 1..MaxCPU
    /\ workersArg > 0 => numCPU = 1
    /\ ScanIdle

\* workers == 1: ScanParallel returns Scan(repoPath)
ScanSequential ==
    /\ pcMain = "start"
    /\ EffWorkers = 1
    /\ result' = Scan(tree)
    /\ pcMain' = "done"
    /\ UNCHANGED notScanVars
    /\ UNCHANGED <<scanIn, scanMain, pathCh, resultCh, wg, wpc, wcur>>

\* phase 1: walk the tree, then make(chan string, len(paths))
CollectPhase ==
    /\ pcMain = "start"
    /\ EffWorkers # 1
    /\ paths' = CollectPaths(tree, 1)
    /\ toSend' = paths'
    /\ pathCap' = PathChanCapacity(paths')
    /\ result' = [result EXCEPT !.FilesSkipped = CountSkipped(tree)]
    /\ pcMain' = "enqueue"
    /\ UNCHANGED notScanVars
    /\ UNCHANGED <<scanIn, pathClosed, resultCap, spawned, pathCh, resultCh, wg,
                   wpc, wcur>>

\* pathCh <- p: blocks while the buffer is full
Enqueue ==
    /\ pcMain = "enqueue"
    /\ toSend # <<>>
    /\ Len(pathCh) < pathCap
    /\ pathCh' = Append(pathCh, Head(toSend))
    /\ toSend' = Tail(toSend)
    /\ UNCHANGED notScanVars
    /\ UNCHANGED <<scanIn, pcMain, paths, pathClosed, pathCap, resultCap, spawned,
                   resultCh, wg, wpc, wcur, result>>

\* close(pathCh); resultCh := make(chan fileResult, len(paths))
ClosePaths ==
    /\ pcMain = "enqueue"
    /\ toSend = <<>>
    /\ pathClosed' = TRUE
    /\ resultCap' = ResultChanCapacity(paths)
    /\ pcMain' = "spawn"
    /\ UNCHANGED notScanVars
    /\ UNCHANGED <<scanIn, paths, toSend, pathCap, spawned, pathCh, resultCh, wg,
                   wpc, wcur, result>>

\* wg.Add(1); go func() {...}()
Spawn ==
    /\ pcMain = "spawn"
    /\ spawned < EffWorkers
    /\ spawned' = spawned + 1
    /\ wg' = wg + 1
    /\ wpc' = [wpc EXCEPT ![spawned + 1] = "recv"]
    /\ UNCHANGED notScanVars
    /\ UNCHANGED <<scanIn, pcMain, paths, toSend, pathClosed, pathCap, resultCap,
                   pathCh, resultCh, wcur, result>>

\* the spawn loop is over: wg.Wait() is next
SpawnDone ==
    /\ pcMain = "spawn"
    /\ spawned = EffWorkers
    /\ pcMain' = "wait"
    /\ UNCHANGED notScanVars
    /\ UNCHANGED <<scanIn, scanMain, pathCh, resultCh, wg, wpc, wcur, result>>

\* a receive that leaves the path in the channel
WorkerTakeKeepingPath(w) ==
    /\ wpc[w] = "recv"
    /\ pathCh # <<>>
    /\ wcur' = [wcur EXCEPT ![w] = scanFile(tree, Head(pathCh))]
    /\ wpc' = [wpc EXCEPT ![w] = "send"]
    /\ UNCHANGED notScanVars
    /\ UNCHANGED <<scanIn, pcMain, scanMain, pathCh, resultCh, wg, result>>

\* for path := range pathCh: receive a path and scanFile it
WorkerTake(w) ==
    /\ wpc[w] = "recv"
    /\ pathCh # <<>>
    /\ wcur' = [wcur EXCEPT ![w] = scanFile(tree, Head(pathCh))]
    /\ pathCh' = Tail(pathCh)
    /\ wpc' = [wpc EXCEPT ![w] = "send"]
    /\ UNCHANGED notScanVars
    /\ UNCHANGED <<scanIn, pcMain, scanMain, resultCh, wg, result>>

\* resultCh <- fileResult{...}: blocks while the buffer is full
WorkerSend(w) ==
    /\ wpc[w] = "send"
    /\ Len(resultCh) < resultCap
    /\ resultCh' = Append(resultCh, wcur[w])
    /\ wpc' = [wpc EXCEPT ![w] = "recv"]
    /\ UNCHANGED notScanVars
    /\ UNCHANGED <<scanIn, pcMain, scanMain, pathCh, wg, wcur, result>>

\* the range loop ends on the closed, drained channel: defer wg.Done()
WorkerExit(w) ==
    /\ wpc[w] = "recv"
    /\ pathCh = <<>>
    /\ pathClosed
    /\ wpc' = [wpc EXCEPT ![w] = "exit"]
    /\ wg' = wg - 1
    /\ UNCHANGED notScanVars
    /\ UNCHANGED <<scanIn, pcMain, scanMain, pathCh, resultCh, wcur, result>>

\* wg.Wait(); close(resultCh)
WaitWorkers ==
    /\ pcMain = "wait"
    /\ wg = 0
    /\ pcMain' = "merge"
    /\ UNCHANGED notScanVars
    /\ UNCHANGED <<scanIn, scanMain, pathCh, resultCh, wg, wpc, wcur, result>>

\* the merge loop skipping failed files instead of returning their error
MergeStepIgnoringErr(r, fr) ==
    IF fr.err THEN r
    ELSE [r EXCEPT !.Refs = @ \o fr.refs,
                   !.ColumnRefs = @ \o fr.colRefs,
                   !.FilesScanned = @ + 1]

\* one iteration of the merge loop over resultCh
MergeStep(r, fr) ==
    IF fr.err THEN [r EXCEPT !.err = TRUE]
    ELSE [r EXCEPT !.Refs = @ \o fr.refs,
                   !.ColumnRefs = @ \o fr.colRefs,
                   !.FilesScanned = @ + 1]

\* phase 3: for fr := range resultCh
MergeOne ==
    /\ pcMain = "merge"
    /\ resultCh # <<>>
    /\ result' = MergeStep(result, Head(resultCh))
    /\ resultCh' = Tail(resultCh)
    /\ pcMain' = IF result'.err THEN "done" ELSE "merge"
    /\ UNCHANGED notScanVars
    /\ UNCHANGED <<scanIn, scanMain, pathCh, wg, wpc, wcur>>

\* the channel is drained: derive Tables and Columns and return
MergeFinish ==
    /\ pcMain = "merge"
    /\ resultCh = <<>>
    /\ result' = [result EXCEPT !.Tables = uniqueTables(result.Refs),
                                !.Columns = uniqueColumns(result.ColumnRefs)]
    /\ pcMain' = "done"
    /\ UNCHANGED notScanVars
    /\ UNCHANGED <<scanIn, scanMain, pathCh, resultCh, wg, wpc, wcur>>

MainStep ==
    \/ ScanSequential
    \/ CollectPhase
    \/ Enqueue
    \/ ClosePaths
    \/ Spawn
    \/ SpawnDone
    \/ WaitWorkers
    \/ MergeOne
    \/ MergeFinish

WorkerStep(w) ==
    \/ WorkerTake(w)
    \/ WorkerSend(w)
    \/ WorkerExit(w)

ScanNext ==
    \/ MainStep
    \/ \E w \in Workers : WorkerStep(w)

ScanSpec == ScanInit /\ [][ScanNext]_vars

\* the Go scheduler runs every goroutine that is able to run
FairScanSpec ==
    /\ ScanSpec
    /\ WF_vars(MainStep)
    /\ \A w \in Workers : WF_vars(WorkerStep(w))

(***************************************************************************)
(* The audit and check commands: the lifecycle of the findings of one run. *)
(***************************************************************************)

\* the scanner is not part of the run
ScanOff ==
    /\ tree = <<>>
    /\ workersArg = 1
    /\ numCPU = 1
    /\ ScanIdle

RunInit ==
    /\ ScanOff
    /\ AnalyzerOff
    /\ FileOff
    /\ ConnOff
    /\ FpOff
    /\ pcRun = "start"
    /\ raw = <<>>
    /\ findings = <<>>
    /\ minSeverity = ""
    /\ typeFilter = ""
    /\ updateBaseline = ""
    /\ baselinePath = ""
    /\ failOn = ""
    /\ fs \in {[p \in Paths |-> IF p = "old.json" THEN old ELSE NoFile] : old \in OldBaselines}
    /\ totalSuppressed = 0
    /\ baselineDropped = 0
    /\ report = NoReport
    /\ runErr = ""
    /\ exitCode = -1

\* findings := analyzer.Audit(...) or analyzer.Diff(...)
RunAnalyze ==
    /\ pcRun = "start"
    /\ \E l \in FindingLists :
          /\ raw' = l
          /\ findings' = l
    /\ pcRun' = "analyzed"
    /\ UNCHANGED <<runFlags, fs, totalSuppressed, baselineDropped, report, runErr,
                   exitCode>>
    /\ UNCHANGED notRunVars

\* findings = applyReportFilters(findings, minSeverity, typeFilter)
RunReportFilters ==
    /\ pcRun = "analyzed"
    /\ \E ms \in MinSeverityFlags, tf \in TypeFlags :
          /\ minSeverity' = ms
          /\ typeFilter' = tf
          /\ findings' = applyReportFilters(findings, ms, tf)
    /\ pcRun' = "filtered"
    /\ UNCHANGED <<raw, updateBaseline, baselinePath, failOn, fs, totalSuppressed,
                   baselineDropped, report, runErr, exitCode>>
    /\ UNCHANGED notRunVars

\* if updateBaseline != "" { baseline.Save(updateBaseline, findings) }
RunUpdateBaseline ==
    /\ pcRun = "filtered"
    /\ \E ub \in UpdateBaselineFlags, written \in BOOLEAN :
          /\ updateBaseline' = ub
          /\ ub = "" => written
          /\ IF ub = ""
             THEN /\ pcRun' = "saved"
                  /\ UNCHANGED <<fs, runErr, exitCode>>
             ELSE IF written
             THEN /\ fs' = [fs EXCEPT ![ub] = Save(findings)]
                  /\ pcRun' = "saved"
                  /\ UNCHANGED <<runErr, exitCode>>
             ELSE /\ runErr' = "save baseline"
                  /\ exitCode' = 1
                  /\ pcRun' = "done"
                  /\ UNCHANGED fs
    /\ UNCHANGED <<raw, findings, minSeverity, typeFilter, baselinePath, failOn,
                   totalSuppressed, baselineDropped, report>>
    /\ UNCHANGED notRunVars

\* findings, totalSuppressed, err := filterFindings(findings, baselinePath)
RunFilterFindings ==
    /\ pcRun = "saved"
    /\ \E bp \in BaselineFlags, rules \in RuleSets :
          LET r == filterFindings(findings, bp, fs, rules)
          IN /\ baselinePath' = bp
             /\ baselineDropped' = r.baselineDropped
             /\ IF r.err # ""
                THEN /\ runErr' = r.err
                     /\ exitCode' = 1
                     /\ pcRun' = "done"
                     /\ UNCHANGED <<findings, totalSuppressed>>
                ELSE /\ findings' = r.findings
                     /\ totalSuppressed' = r.totalSuppressed
                     /\ pcRun' = "suppressed"
                     /\ UNCHANGED <<runErr, exitCode>>
    /\ UNCHANGED <<raw, minSeverity, typeFilter, updateBaseline, failOn, fs, report>>
    /\ UNCHANGED notRunVars

\* report := reporter.NewReport(...); reporter.Write(...)
RunWriteReport ==
    /\ pcRun = "suppressed"
    /\ report' = NewReport(findings)
    /\ \E written \in BOOLEAN :
          IF written
          THEN /\ pcRun' = "reported"
               /\ UNCHANGED <<runErr, exitCode>>
          ELSE /\ runErr' = "write report"
               /\ exitCode' = 1
               /\ pcRun' = "done"
    /\ UNCHANGED <<raw, findings, runFlags, fs, totalSuppressed, baselineDropped>>
    /\ UNCHANGED notRunVars

\* the exit code of a run that wrote its report
RunExitCode(effectiveFailOn) ==
    IF effectiveFailOn # "" /\ shouldFailOn(findings, effectiveFailOn) THEN 2
    ELSE ExitCode(report.MaxSeverity)

\* audit: --fail-on, then the exit code of the highest severity
AuditExit ==
    /\ pcRun = "reported"
    /\ \E fo \in FailOnFlags :
          /\ failOn' = fo
          /\ exitCode' = RunExitCode(fo)
    /\ pcRun' = "done"
    /\ UNCHANGED <<raw, findings, minSeverity, typeFilter, updateBaseline,
                   baselinePath, fs, totalSuppressed, baselineDropped, report, runErr>>
    /\ UNCHANGED notRunVars

\* check: --fail-on or its legacy aliases, then the exit code of the highest severity
CheckExit ==
    /\ pcRun = "reported"
    /\ \E fo \in FailOnFlags, failOnMissing \in BOOLEAN, failOnDrift \in BOOLEAN :
          /\ failOn' = resolveCheckFailOn(fo, failOnMissing, failOnDrift)
          /\ exitCode' = RunExitCode(failOn')
    /\ pcRun' = "done"
    /\ UNCHANGED <<raw, findings, minSeverity, typeFilter, updateBaseline,
                   baselinePath, fs, totalSuppressed, baselineDropped, report, runErr>>
    /\ UNCHANGED notRunVars

RunNext ==
    \/ RunAnalyze
    \/ RunReportFilters
    \/ RunUpdateBaseline
    \/ RunFilterFindings
    \/ RunWriteReport
    \/ AuditExit
    \/ CheckExit

RunSpec == RunInit /\ [][RunNext]_vars

(***************************************************************************)
(* Baseline round trip: Save a list of findings, Load the file, Filter the *)
(* same list.                                                              *)
(***************************************************************************)

RoundTripInit ==
    /\ ScanOff
    /\ AnalyzerOff
    /\ FileOff
    /\ ConnOff
    /\ FpOff
    /\ pcRun = "rt_start"
    /\ raw \in FindingLists
    /\ findings = <<>>
    /\ minSeverity = ""
    /\ typeFilter = ""
    /\ updateBaseline = ""
    /\ baselinePath = ""
    /\ failOn = ""
    /\ fs = [p \in Paths |-> NoFile]
    /\ totalSuppressed = 0
    /\ baselineDropped = 0
    /\ report = NoReport
    /\ runErr = ""
    /\ exitCode = -1

\* baseline.Save(path, F)
RoundTripSave ==
    /\ pcRun = "rt_start"
    /\ \E p \in Paths :
          /\ updateBaseline' = p
          /\ fs' = [fs EXCEPT ![p] = Save(raw)]
    /\ pcRun' = "rt_saved"
    /\ UNCHANGED <<raw, findings, minSeverity, typeFilter, baselinePath, failOn,
                   totalSuppressed, baselineDropped, report, runErr, exitCode>>
    /\ UNCHANGED notRunVars

\* bl := baseline.Load(path); bl.Filter(F)
RoundTripFilter ==
    /\ pcRun = "rt_saved"
    /\ baselinePath' = updateBaseline
    /\ LET bl == Load(fs[updateBaseline])
           r == BaselineFilter(bl, raw)
       IN /\ findings' = r.findings
          /\ totalSuppressed' = r.suppressed
          /\ baselineDropped' = r.suppressed
    /\ pcRun' = "rt_done"
    /\ UNCHANGED <<raw, minSeverity, typeFilter, updateBaseline, failOn, fs, report,
                   runErr, exitCode>>
    /\ UNCHANGED notRunVars

RoundTripNext ==
    \/ RoundTripSave
    \/ RoundTripFilter

RoundTripSpec == RoundTripInit /\ [][RoundTripNext]_vars

(***************************************************************************)
(* Fingerprints of two findings.                                           *)
(***************************************************************************)

\* findings whose schema, table and index names come from the catalog, where
\* a quoted identifier may hold any character
CatalogFindings ==
    {Finding(t, sev, s, tb, "", ix, "") :
        t \in {"UNUSED_INDEX", "BLOATED_INDEX"}, sev \in {SeverityMedium, SeverityLow},
        s \in {"a", "a|b"}, tb \in {"c", "b|c"}, ix \in {"i", "j"}}

\* the fields a finding is identified by
Identity(f) == <<f.Type, f.Schema, f.Table, f.Column, f.Index>>

FpInit ==
    /\ ScanOff
    /\ AnalyzerOff
    /\ FileOff
    /\ ConnOff
    /\ RunOff
    /\ pcFp = "start"
    /\ fpPair \in CatalogFindings \X CatalogFindings
    /\ fpResult = <<>>

\* Fingerprint(&f) for both findings
ComputeFingerprints ==
    /\ pcFp = "start"
    /\ fpResult' = <<Fingerprint(fpPair[1]), Fingerprint(fpPair[2])>>
    /\ pcFp' = "done"
    /\ UNCHANGED fpPair
    /\ UNCHANGED notFpVars

FpNext == ComputeFingerprints

FpSpec == FpInit /\ [][FpNext]_vars

(***************************************************************************)
(* One run of the analyzer over a catalog snapshot.                        *)
(***************************************************************************)

AnalyzerInit ==
    /\ ScanOff
    /\ RunOff
    /\ FpOff
    /\ FileOff
    /\ ConnOff
    /\ pcAn = "start"
    /\ snap \in Snapshots
    /\ opts \in AuditOptionsSet
    /\ scan = NoScan
    /\ found = <<>>

\* findings := analyzer.Audit(snap, opts), as the audit command calls it
RunAudit ==
    /\ pcAn = "start"
    /\ \E order \in KeyOrders(IndexTableKeys(FilteredIndexes(snap, opts))) :
          found' = Audit(snap, opts, order)
    /\ pcAn' = "audit"
    /\ UNCHANGED <<snap, opts, scan>>
    /\ UNCHANGED notAnVars

\* findings := analyzer.Diff(&scan, snap, opts), as the check command calls it
RunDiff ==
    /\ pcAn = "start"
    /\ \E sc \in DiffScans :
          /\ scan' = sc
          /\ \E order \in KeyOrders(IndexTableKeys(FilteredIndexes(snap, opts))) :
                found' = Diff(sc, snap, opts, order)
    /\ pcAn' = "diff"
    /\ UNCHANGED <<snap, opts>>
    /\ UNCHANGED notAnVars

AnalyzerNext ==
    \/ RunAudit
    \/ RunDiff

AnalyzerSpec == AnalyzerInit /\ [][AnalyzerNext]_vars

(***************************************************************************)
(* scanFile over the lines of one file: the line loop and the flush at the *)
(* end of the file.                                                        *)
(***************************************************************************)

Sp == " "

\* the lines the files are made of, each the sequence of its pieces
Blank == <<>>
SelectDotted == <<"SELECT", Sp, "users", ".", "id", Sp, "FROM", Sp, "users", ";">>
SelectFrom == <<"SELECT", Sp, "email", Sp, "FROM", Sp, "users">>
JoinWhere ==
    <<"JOIN", Sp, "users", Sp, "WHERE", Sp, "id", Sp, "=", Sp, "1", Sp, "ORDER", Sp, "BY", Sp,
      "nick", ";">>
InsertOpenLiteral == <<"INSERT", Sp, "INTO", Sp, "orders", Sp, "VALUES", Sp, "(", "'", "a">>
CloseLiteral == <<"b", ";", "c", "'", ")", ";">>
KeywordNames == <<"FROM", Sp, "Select", Sp, "WHERE", Sp, "Count", Sp, "=", Sp, "1">>
BacktickOpen == <<"q", Sp, "=", Sp, Backtick, "SELECT", Sp, "email">>
BacktickClose == <<"\t", "FROM", Sp, "users", Backtick, ")">>
BacktickThree ==
    <<"a", Sp, "=", Sp, Backtick, "x", Backtick, Sp, "+", Sp, Backtick, "FROM", Sp, "orders">>
TripleOpen == <<"q", Sp, "=", Sp, TripleDouble, "SELECT", Sp, "id">>
TripleClose == <<"FROM", Sp, "users", TripleDouble>>
FromQualified == <<"SELECT", Sp, "*", Sp, "FROM", Sp, "public", ".", "users">>
PrefixOpen == <<"FROM", Sp, "orders", Sp, Backtick, "SELECT", Sp, "email">>
CloseSuffix == <<"FROM", Sp, "users", Backtick, Sp, "JOIN", Sp, "logs">>

\* the lines read from a file of each extension
LineUniverse(ext) ==
    CASE ext = ".sql" ->
           {Blank, SelectDotted, SelectFrom, JoinWhere, InsertOpenLiteral, CloseLiteral,
            KeywordNames}
      [] ext = ".go" ->
           {Blank, SelectFrom, KeywordNames, BacktickOpen, BacktickClose, BacktickThree,
            PrefixOpen, CloseSuffix}
      [] OTHER -> {Blank, SelectFrom, TripleOpen, TripleClose, FromQualified}

FileExts == {".sql", ".go", ".py"}

\* relPath of the scanned file
RelPath == "f"

\* the closure scanText of scanFile: the references of one text
scanTextRefs(text, line) ==
    Only({ [k \in 1..Len(ms) |->
              [Table |-> ms[k].Table, Schema |-> ms[k].Schema, File |-> RelPath,
               Line |-> line, Pattern |-> ms[k].Pattern, Context |-> ms[k].Context]] :
             ms \in {ScanLine(text)} })

scanTextColumns(text, line) ==
    Only({ [k \in 1..Len(cs) |->
              [Table |-> cs[k].Table, Column |-> cs[k].Column, Schema |-> cs[k].Schema,
               File |-> RelPath, Line |-> line, Context |-> cs[k].Context]] :
             cs \in {ScanLineColumns(text)} })

\* the references of a sequence of statements, and their scanText calls
RECURSIVE StatementRefs(_)
StatementRefs(ss) ==
    IF ss = <<>> THEN <<>>
    ELSE scanTextRefs(Head(ss).text, Head(ss).lineNum) \o StatementRefs(Tail(ss))
RECURSIVE StatementColumns(_)
StatementColumns(ss) ==
    IF ss = <<>> THEN <<>>
    ELSE scanTextColumns(Head(ss).text, Head(ss).lineNum) \o StatementColumns(Tail(ss))
Calls(ss, from, at) ==
    [k \in 1..Len(ss) |->
       [text |-> ss[k].text, line |-> ss[k].lineNum, from |-> from, at |-> at]]

FileInit ==
    /\ ScanOff
    /\ RunOff
    /\ FpOff
    /\ AnalyzerOff
    /\ ConnOff
    /\ pcFile = "reading"
    /\ fExt \in FileExts
    /\ fLines = <<>>
    /\ fLineNum = 0
    /\ fBuf = newSQLBuffer
    /\ fRefs = <<>>
    /\ fColRefs = <<>>
    /\ fScanned = <<>>

\* one turn of the line loop of a .sql file
ReadSQLLine ==
    /\ pcFile = "reading"
    /\ fExt = ".sql"
    /\ fLineNum < MaxLines
    /\ \E line \in LineUniverse(fExt) :
       \E r \in {feedSQL(fBuf, fLineNum + 1, line)} :
          /\ fLines' = Append(fLines, line)
          /\ fLineNum' = fLineNum + 1
          /\ fBuf' = r.buf
          /\ fRefs' = fRefs \o StatementRefs(r.results)
          /\ fColRefs' = fColRefs \o StatementColumns(r.results)
          /\ fScanned' = fScanned \o Calls(r.results, "semicolon", fLineNum + 1)
    /\ UNCHANGED <<pcFile, fExt>>
    /\ UNCHANGED notFileVars

\* one turn of the line loop of a code file
ReadCodeLine ==
    /\ pcFile = "reading"
    /\ fExt # ".sql"
    /\ fLineNum < MaxLines
    /\ \E line \in LineUniverse(fExt) :
       \E r \in {feedCode(fBuf, fLineNum + 1, line, fExt)} :
       \E own \in {IF r.buffered THEN <<>> ELSE <<bufferedStatement(line, fLineNum + 1)>>} :
          /\ fLines' = Append(fLines, line)
          /\ fLineNum' = fLineNum + 1
          /\ fBuf' = r.buf
          /\ fRefs' = fRefs \o StatementRefs(r.stmt) \o StatementRefs(own)
          /\ fColRefs' = fColRefs \o StatementColumns(r.stmt) \o StatementColumns(own)
          /\ fScanned' = fScanned \o Calls(r.stmt, "close", fLineNum + 1)
                                  \o Calls(own, "line", fLineNum + 1)
    /\ UNCHANGED <<pcFile, fExt>>
    /\ UNCHANGED notFileVars

\* the end of the file: the flush and the return
FlushAtEOF ==
    /\ pcFile = "reading"
    /\ \E r \in {flush(fBuf)} :
          /\ fBuf' = r.buf
          /\ fRefs' = fRefs \o StatementRefs(r.stmt)
          /\ fColRefs' = fColRefs \o StatementColumns(r.stmt)
          /\ fScanned' = fScanned \o Calls(r.stmt, "flush", fLineNum)
    /\ pcFile' = "done"
    /\ UNCHANGED <<fExt, fLines, fLineNum>>
    /\ UNCHANGED notFileVars

FileNext ==
    \/ ReadSQLLine
    \/ ReadCodeLine
    \/ FlushAtEOF

FileSpec == FileInit /\ [][FileNext]_vars

(***************************************************************************)
(* One call of connectWithRetry.                                           *)
(***************************************************************************)

ConnInit ==
    /\ ScanOff
    /\ RunOff
    /\ FpOff
    /\ AnalyzerOff
    /\ FileOff
    /\ pcConn = "loop"
    /\ ctxErr = Nil
    /\ attempt = 0
    /\ lastErr = Nil
    /\ delay = 0
    /\ timerFired = FALSE
    /\ calls = <<>>
    /\ waits = <<>>
    /\ connRet = [inspector |-> FALSE, err |-> Nil]

\* what newInspectorOnce can return: an attempt under a context that is done
\* does not succeed
Outcomes == IF ctxErr = Nil THEN {Nil} \cup AttemptErrors ELSE AttemptErrors

\* the waits with the last one marked as ended
EndWait(how) == [waits EXCEPT ![Len(waits)].ended = how]

\* one turn of the loop up to the select: the attempt and what follows from
\* its error
TryConnect ==
    /\ pcConn = "loop"
    /\ \E err \in Outcomes :
          /\ calls' = Append(calls, [err |-> err, ctx |-> ctxErr])
          /\ IF err = Nil
             THEN /\ connRet' = [inspector |-> TRUE, err |-> Nil]
                  /\ pcConn' = "done"
                  /\ UNCHANGED <<lastErr, delay, timerFired, waits>>
             ELSE IF ~isRetryable(err)
                  THEN /\ connRet' = [inspector |-> FALSE, err |-> err]
                       /\ pcConn' = "done"
                       /\ UNCHANGED <<lastErr, delay, timerFired, waits>>
                  ELSE /\ lastErr' = err
                       /\ \E jitter \in Jitters : delay' = backoffDelay(attempt, jitter)
                       /\ waits' = Append(waits, [after |-> Len(calls) + 1, delay |-> delay',
                                                  ended |-> "pending"])
                       /\ timerFired' = FALSE
                       /\ pcConn' = "select"
                       /\ UNCHANGED connRet
    /\ UNCHANGED <<ctxErr, attempt>>
    /\ UNCHANGED notConnVars

\* the delay has passed before the context was done: the channel of
\* time.After becomes ready and wakes the select
TimerExpires ==
    /\ pcConn = "select"
    /\ ~timerFired
    /\ ctxErr = Nil
    /\ timerFired' = TRUE
    /\ UNCHANGED <<pcConn, ctxErr, attempt, lastErr, delay, calls, waits, connRet>>
    /\ UNCHANGED notConnVars

\* the caller's context is cancelled or reaches its deadline
CancelContext ==
    /\ pcConn \in {"loop", "select"}
    /\ ctxErr = Nil
    /\ ctxErr' \in ContextErrors
    /\ UNCHANGED <<pcConn, attempt, lastErr, delay, timerFired, calls, waits, connRet>>
    /\ UNCHANGED notConnVars

\* case <-ctx.Done(): the context was done before the delay had passed
SelectDone ==
    /\ pcConn = "select"
    /\ ctxErr # Nil
    /\ ~timerFired
    /\ connRet' = [inspector |-> FALSE, err |-> ctxErr]
    /\ waits' = EndWait("done")
    /\ pcConn' = "done"
    /\ UNCHANGED <<ctxErr, attempt, lastErr, delay, timerFired, calls>>
    /\ UNCHANGED notConnVars

\* case <-time.After(delay), the next turn of the loop or the return after it
SelectTimer ==
    /\ pcConn = "select"
    /\ timerFired
    /\ waits' = EndWait("timer")
    /\ attempt' = attempt + 1
    /\ IF attempt + 1 < maxRetries
       THEN pcConn' = "loop" /\ UNCHANGED connRet
       ELSE pcConn' = "done" /\ connRet' = [inspector |-> FALSE, err |-> lastErr]
    /\ UNCHANGED <<ctxErr, lastErr, delay, timerFired, calls>>
    /\ UNCHANGED notConnVars

ConnNext ==
    \/ TryConnect
    \/ TimerExpires
    \/ CancelContext
    \/ SelectDone
    \/ SelectTimer

ConnSpec == ConnInit /\ [][ConnNext]_vars

(***************************************************************************)
(* Claims about the scanner.                                               *)
(***************************************************************************)

\* a supported file the walk visits fails to open or to read
SomeFileUnreadable ==
    \E i \in 1..Len(tree) : ~Pruned(tree[i]) /\ Supported(tree[i]) /\ tree[i].err

\* C1: once ScanParallel has returned, for every worker count and every
\* interleaving, it fails exactly when the sequential Scan of the same tree
\* fails, and otherwise its sorted tables, its sorted columns, files_scanned
\* and files_skipped are those of the sequential Scan.
ParallelSameAsSequential ==
    pcMain = "done" =>
        LET s == Scan(tree)
        IN /\ result.err = s.err
           /\ ~s.err => /\ result.Tables = s.Tables
                        /\ result.Columns = s.Columns
                        /\ result.FilesScanned = s.FilesScanned
                        /\ result.FilesSkipped = s.FilesSkipped

\* a parallel scan has succeeded after merging the per-file results in an
\* order other than walk order
ParallelMergedOutOfOrder ==
    /\ pcMain = "done"
    /\ EffWorkers >= 2
    /\ ~result.err
    /\ result.Refs # Scan(tree).Refs
    /\ Len(result.Tables) >= 2
    /\ Len(result.Columns) >= 2

\* no send finds its channel full: the producer at `pathCh <- p` and every
\* worker at `resultCh <- ...` can complete the send
NoSendBlocks ==
    /\ (pcMain = "enqueue" /\ toSend # <<>>) => Len(pathCh) < pathCap
    /\ \A w \in Workers : wpc[w] = "send" => Len(resultCh) < resultCap

\* C2: in ScanParallel no send ever finds its channel full (the producer
\* enqueues every path and every worker delivers every result while the
\* collector is still waiting), and the scan terminates.
NoGoroutineBlocksForever == []NoSendBlocks /\ <>(pcMain = "done")

\* every worker has delivered a result and exited while the collector had
\* not yet received anything
AllDeliveredBeforeDrain ==
    /\ pcMain = "wait"
    /\ wg = 0
    /\ EffWorkers >= 2
    /\ Len(paths) = MaxFiles
    /\ Len(resultCh) = Len(paths)

\* C3: a scan of a tree in which a supported file cannot be opened or read
\* returns an error, sequentially and in parallel under every interleaving.
UnreadableFileAbortsScan ==
    (pcMain = "done" /\ SomeFileUnreadable) => result.err

\* a parallel scan has returned the error of an unreadable file after it had
\* merged the result of a readable one
ParallelScanAborted ==
    /\ pcMain = "done"
    /\ EffWorkers >= 2
    /\ result.err
    /\ result.FilesScanned >= 1



\* where a collected path is: not yet enqueued, in pathCh, scanned and in
\* the hand of the worker that is about to send its result, in resultCh
HeldAt(p) ==
    Cardinality({k \in 1..Len(toSend) : toSend[k] = p})
      + Cardinality({k \in 1..Len(pathCh) : pathCh[k] = p})
      + Cardinality({w \in Workers : wpc[w] = "send" /\ wcur[w].filePath = p})
      + Cardinality({k \in 1..Len(resultCh) : resultCh[k].filePath = p})

\* the number of results the merge loop has received
Received == result.FilesScanned + (IF result.err THEN 1 ELSE 0)

\* a parallel scan is past phase 1
ParallelUnderWay == EffWorkers # 1 /\ pcMain # "start"

\* every collected path is at one place at most, and the paths that are at
\* none are as many as the results the collector received; once the workers
\* have exited every path has been scanned and every result in resultCh is
\* the scan of its path
PathsScannedOnce ==
    /\ \A k \in 1..Len(paths) : HeldAt(paths[k]) <= 1
    /\ Cardinality({k \in 1..Len(paths) : HeldAt(paths[k]) = 0}) = Received
    /\ \A k \in 1..Len(resultCh) : resultCh[k] = scanFile(tree, resultCh[k].filePath)
    /\ pcMain \in {"merge", "done"} =>
          /\ toSend = <<>> /\ pathCh = <<>>
          /\ \A w \in Workers : wpc[w] # "send"

\* C26 as stated: in parallel mode every collected path is scanned by
\* exactly one worker exactly once, and the collector receives exactly one
\* per-file result for each collected path.
CollectorReceivesEveryResult ==
    ParallelUnderWay =>
        /\ PathsScannedOnce
        /\ pcMain = "done" => Received = Len(paths)

\* C26 amended: in parallel mode every collected path is scanned by exactly
\* one worker exactly once and resultCh gets exactly one result for it; the
\* collector receives every one of them when no file failed, and otherwise
\* the results up to the first failed one, the rest staying in resultCh.
CollectorReceivesUpToFirstError ==
    ParallelUnderWay =>
        /\ PathsScannedOnce
        /\ pcMain = "done" =>
              /\ ~result.err => Received = Len(paths)
              /\ result.err => Received + Len(resultCh) = Len(paths)

\* C26 witness: a parallel scan returned the error of the first result it
\* received and left the result of the other scanned path in resultCh.
AbortLeftResultUnreceived ==
    /\ pcMain = "done"
    /\ EffWorkers >= 2
    /\ result.err
    /\ Len(paths) >= 2
    /\ Received = 1
    /\ Len(resultCh) = Len(paths) - 1
(***************************************************************************)
(* Claims about the finding lifecycle.                                     *)
(***************************************************************************)

\* the run has passed the baseline update without an error
PastUpdate == pcRun \in {"saved", "suppressed", "reported", "done"} /\ runErr # "save baseline"

\* the run has passed filterFindings without an error
PastFilter == pcRun \in {"suppressed", "reported", "done"} /\ runErr \in {"", "write report"}

\* the fingerprints a baseline file holds
FileFingerprints(file) == Load(file).set

\* C4 as stated: when a baseline update is requested, the run writes the
\* baseline file and the baseline filter removes nothing in that same run.
UpdateRunSkipsBaselineFilter ==
    (updateBaseline # "" /\ PastUpdate) =>
        /\ fs[updateBaseline].kind = "baseline"
        /\ baselineDropped = 0

\* C4 as amended: when a baseline update is requested, the run writes the
\* baseline file before the baseline filter runs; the baseline filter is
\* then applied in that same run exactly when --baseline is given: no
\* surviving finding has its fingerprint in the baseline loaded from that
\* path, a --baseline that names the file just written leaves no finding,
\* and without --baseline the baseline filter removes nothing.
UpdateRunStillFiltersByBaseline ==
    (updateBaseline # "" /\ PastUpdate) =>
        /\ fs[updateBaseline].kind = "baseline"
        /\ pcRun = "saved" => (baselineDropped = 0 /\ totalSuppressed = 0)
        /\ PastFilter =>
              /\ baselinePath = "" => baselineDropped = 0
              /\ baselinePath # "" =>
                    \A k \in 1..Len(findings) :
                        Fingerprint(findings[k]) \notin FileFingerprints(fs[baselinePath])
              /\ baselinePath = updateBaseline => findings = <<>>

\* a run that updated the baseline and then dropped findings because they
\* were in the baseline it had just written
UpdateRunDroppedByOwnBaseline ==
    /\ pcRun = "done"
    /\ runErr = ""
    /\ updateBaseline # ""
    /\ baselinePath = updateBaseline
    /\ baselineDropped = MaxFindings

\* --min-severity keeps the finding: the flag is unset, names no severity, or
\* names one that is not above the finding's
PassesMinSeverity(f) ==
    LET m == ToLower(minSeverity)
        level == <<"info", "low", "medium", "high">>
    IN \/ minSeverity = ""
       \/ m \notin Range(level)
       \/ \E i, j \in 1..4 : level[i] = m /\ level[j] = f.Severity /\ i <= j

\* --type keeps the finding: the flag lists no type, or lists the finding's
\* type, in any case, or by the alias SCHEMA_DRIFT of MISSING_COLUMN
PassesTypeFilter(f) ==
    LET parts == SplitComma(typeFilter)
        named == {TrimSpace(parts[i]) : i \in 1..Len(parts)} \ {""}
    IN \/ typeFilter = ""
       \/ named = {}
       \/ \E t \in named : \/ EqualFold(t, f.Type)
                           \/ EqualFold(t, "SCHEMA_DRIFT") /\ f.Type = "MISSING_COLUMN"

\* C5: the fingerprints a baseline update writes are exactly those of the
\* findings the analyzer returned that pass --min-severity and --type,
\* whatever the baseline and suppression filters remove afterwards.
BaselineHoldsReportFiltered ==
    (updateBaseline # "" /\ PastUpdate) =>
        /\ fs[updateBaseline].kind = "baseline"
        /\ Range(fs[updateBaseline].fingerprints) =
              {Fingerprint(raw[i]) : i \in {k \in 1..Len(raw) :
                   PassesMinSeverity(raw[k]) /\ PassesTypeFilter(raw[k])}}

\* a baseline was written that leaves out a finding the report filters
\* rejected and holds one that the later filters removed from the report
BaselineWrittenBetweenFilters ==
    /\ pcRun = "done"
    /\ runErr = ""
    /\ updateBaseline # ""
    /\ baselinePath # updateBaseline
    /\ \E i \in 1..Len(raw) :
          Fingerprint(raw[i]) \notin Range(fs[updateBaseline].fingerprints)
    /\ \E i \in 1..Len(raw) :
          /\ Fingerprint(raw[i]) \in Range(fs[updateBaseline].fingerprints)
          /\ raw[i] \notin Range(findings)

\* C6: saving a list F as a baseline and filtering F with the baseline loaded
\* from that file leaves no finding and counts |F| suppressed.
BaselineRoundTrip ==
    pcRun = "rt_done" => (findings = <<>> /\ totalSuppressed = Len(raw))

\* a round trip of two findings that share one fingerprint
RoundTripOfSharedFingerprint ==
    /\ pcRun = "rt_done"
    /\ Len(raw) = 2
    /\ Len(fs[baselinePath].fingerprints) = 1
    /\ totalSuppressed = 2

\* C7: two findings have the same fingerprint when they agree on
\* (type, schema, table, column, index) and different fingerprints when they
\* differ in one of these fields.
FingerprintIdentifiesFinding ==
    pcFp = "done" =>
        ((fpResult[1] = fpResult[2]) <=> (Identity(fpPair[1]) = Identity(fpPair[2])))

\* the findings of a report, by severity
ReportHas(sev) == \E k \in 1..Len(report.Findings) : report.Findings[k].Severity = sev

\* C9: the exit code derived from a report is 2 when a surviving finding is
\* high, 1 when none is high and one is medium, 0 otherwise, and so always
\* one of 0, 1, 2.
ExitCodeFollowsHighestSeverity ==
    /\ pcRun = "done" => exitCode \in {0, 1, 2}
    /\ (pcRun \in {"reported", "done"} /\ runErr \in {"", "write report"}) =>
          LET code == ExitCode(report.MaxSeverity)
          IN /\ report.Findings = findings
             /\ code \in {0, 1, 2}
             /\ ReportHas(SeverityHigh) => code = 2
             /\ (~ReportHas(SeverityHigh) /\ ReportHas(SeverityMedium)) => code = 1
             /\ (~ReportHas(SeverityHigh) /\ ~ReportHas(SeverityMedium)) => code = 0
             /\ (pcRun = "done" /\ runErr = "" /\ failOn = "") => exitCode = code

\* a run without --fail-on exits 1 on a report of low and medium findings
ExitOneOnMediumAndLow ==
    /\ pcRun = "done"
    /\ runErr = ""
    /\ failOn = ""
    /\ ReportHas(SeverityMedium)
    /\ ReportHas(SeverityLow)
    /\ exitCode = 1

\* the entries of the --fail-on list, trimmed, blank ones left out
FailOnEntries ==
    LET parts == SplitComma(failOn)
    IN {TrimSpace(parts[i]) : i \in 1..Len(parts)} \ {""}

\* the finding has a listed severity, or a listed type under any case or
\* under the alias SCHEMA_DRIFT of MISSING_COLUMN
ListedInFailOn(f) ==
    \E e \in FailOnEntries :
        IF ToLower(e) \in {"high", "medium", "low", "info"}
        THEN ToLower(e) = f.Severity
        ELSE \/ EqualFold(e, f.Type)
             \/ EqualFold(e, "SCHEMA_DRIFT") /\ f.Type = "MISSING_COLUMN"

\* C10: --fail-on forces exit code 2 exactly when a finding that survived the
\* report, baseline and suppression filters has a listed type or severity;
\* otherwise the exit code is that of the highest surviving severity.
FailOnForcesExitTwo ==
    (pcRun = "done" /\ runErr = "") =>
        IF \E k \in 1..Len(findings) : ListedInFailOn(findings[k])
        THEN exitCode = 2
        ELSE exitCode = ExitCode(MaxSeverity(findings))

\* --fail-on forced exit code 2 through the alias of a surviving medium
\* finding, while a listed finding the filters had removed did not count
FailOnForcedByAlias ==
    /\ pcRun = "done"
    /\ runErr = ""
    /\ exitCode = 2
    /\ ~ReportHas(SeverityHigh)
    /\ \E k \in 1..Len(findings) :
          findings[k].Type = "MISSING_COLUMN" /\ ListedInFailOn(findings[k])
    /\ \E i \in 1..Len(raw) : ListedInFailOn(raw[i]) /\ raw[i] \notin Range(findings)


\* C8: among the findings one audit or check run produces, no two distinct
\* findings share the same (type, schema, table, column, index), so every
\* finding has a fingerprint of its own.
FindingsHaveOwnIdentity ==
    pcAn \in {"audit", "diff"} =>
        \A i, j \in 1..Len(found) :
            i # j => /\ Identity(found[i]) # Identity(found[j])
                     /\ Fingerprint(found[i]) # Fingerprint(found[j])


\* the findings of one type that Diff returned
FoundOfType(type) == {k \in 1..Len(found) : found[k].Type = type}

\* the snapshot tables a code name resolves to, and the indexes on them
Resolved(name) == DbTableIdx(snap, ToLower(name))
IndexesOn(name) ==
    {i \in 1..Len(snap.Indexes) : ToLower(snap.Indexes[i].Table) = ToLower(name)}

\* C18: Diff returns an UNINDEXED_QUERY finding for every column referenced
\* with context WHERE or ORDER_BY on a table of the snapshot whose indexes
\* do not cover the column; in particular when the table has no index.
DiffReportsUnindexedQueries ==
    pcAn = "diff" =>
        \A r \in 1..Len(scan.ColumnRefs) :
            LET cr == scan.ColumnRefs[r]
            IN (/\ cr.Context \in {"WHERE", "ORDER_BY"}
                /\ cr.Table # ""
                /\ Resolved(cr.Table) # {}
                /\ IndexesOn(cr.Table) = {}) =>
                   \E k \in FoundOfType("UNINDEXED_QUERY") :
                       /\ ToLower(found[k].Table) = ToLower(cr.Table)
                       /\ ToLower(found[k].Column) = ToLower(cr.Column)

\* the stats rows of a snapshot table
StatsRows(name) == {i \in 1..Len(snap.Stats) : ToLower(snap.Stats[i].Name) = ToLower(name)}

\* C19: an UNREFERENCED_TABLE finding is returned only for a table that has
\* a stats row, with seq_scan = 0 and idx_scan = 0; a table without a stats
\* row yields none.
UnreferencedOnlyWithStatsRow ==
    pcAn = "diff" =>
        \A k \in FoundOfType("UNREFERENCED_TABLE") :
            \E i \in StatsRows(found[k].Table) :
                snap.Stats[i].SeqScan = 0 /\ snap.Stats[i].IdxScan = 0

\* C20: for every name of scan.Tables Diff returns exactly one finding that
\* is MISSING_TABLE or CODE_MATCH: MISSING_TABLE of high severity when no
\* snapshot table has the name, case ignored, and otherwise CODE_MATCH of
\* info severity with the schema of a snapshot table of that name.
OneVerdictPerScannedTable ==
    pcAn = "diff" =>
        \A t \in 1..Len(scan.Tables) :
            LET name == scan.Tables[t]
                verdicts == {k \in FoundOfType("MISSING_TABLE") \cup FoundOfType("CODE_MATCH") :
                                found[k].Table = name}
            IN /\ Cardinality(verdicts) = 1
               /\ \A k \in verdicts :
                     IF Resolved(name) = {}
                     THEN found[k].Type = "MISSING_TABLE" /\ found[k].Severity = SeverityHigh
                     ELSE /\ found[k].Type = "CODE_MATCH"
                          /\ found[k].Severity = SeverityInfo
                          /\ \E i \in Resolved(name) : found[k].Schema = snap.Tables[i].Schema

\* C20 witness: the code names Users and orders, the snapshot holds users
\* and no orders; Diff returned CODE_MATCH for Users and MISSING_TABLE for
\* orders.
MatchedIgnoringCaseAndMissing ==
    /\ pcAn = "diff"
    /\ scan.Tables = <<"Users", "orders">>
    /\ \E i \in 1..Len(snap.Tables) : snap.Tables[i].Name = "users"
    /\ \E k \in FoundOfType("CODE_MATCH") :
          found[k].Table = "Users" /\ found[k].Schema = "public"
    /\ \E k \in FoundOfType("MISSING_TABLE") : found[k].Table = "orders"


\* the indexes Audit hands to its detectors, and for one of them the ones on
\* the same table whose normalized definition is the same
Detected == FilteredIndexes(snap, opts)
SameDefinition(i) ==
    {j \in 1..Len(Detected) :
        /\ tableKey(Detected[j].Schema, Detected[j].Table)
             = tableKey(Detected[i].Schema, Detected[i].Table)
        /\ normalizeDef(Detected[j].Definition) = normalizeDef(Detected[i].Definition)}

\* C21: for the k indexes of one table whose normalized definitions are
\* identical the run returns exactly k(k-1)/2 DUPLICATE_INDEX findings, and
\* every DUPLICATE_INDEX finding names two such indexes: none is returned
\* for indexes whose normalized definitions differ or that sit on different
\* tables.
DuplicatePairsCounted ==
    pcAn \in {"audit", "diff"} =>
        /\ \A i \in 1..Len(Detected) :
              LET k == Cardinality(SameDefinition(i))
              IN Cardinality({f \in FoundOfType("DUPLICATE_INDEX") :
                                /\ found[f].Schema = Detected[i].Schema
                                /\ found[f].Table = Detected[i].Table
                                /\ \E j \in SameDefinition(i) :
                                      found[f].Index = Detected[j].Name})
                   = (k * (k - 1)) \div 2
        /\ \A f \in FoundOfType("DUPLICATE_INDEX") :
              \E i \in 1..Len(Detected) : \E j \in SameDefinition(i) \ {i} :
                  /\ found[f].Index = Detected[j].Name
                  /\ found[f].Table = Detected[i].Table
                  /\ found[f].Message = "index " \o Detected[j].Name
                                          \o " has the same definition as " \o Detected[i].Name

\* C21 witness: three indexes of one table share a normalized definition, a
\* fourth index or table differs, and three DUPLICATE_INDEX findings came back.
ThreeIdenticalIndexes ==
    /\ pcAn = "audit"
    /\ \E i \in 1..Len(Detected) : Cardinality(SameDefinition(i)) = 3
    /\ Cardinality(FoundOfType("DUPLICATE_INDEX")) = 3


\* C22: no finding Audit returns refers to a table listed in exclude_tables
\* or to a schema listed in exclude_schemas, the comparison ignoring case.
NoFindingOnExcludedObject ==
    pcAn = "audit" =>
        \A k \in 1..Len(found) :
            /\ \A i \in 1..Len(opts.ExcludeTables) :
                  ToLower(found[k].Table) # ToLower(opts.ExcludeTables[i])
            /\ \A i \in 1..Len(opts.ExcludeSchemas) :
                  ToLower(found[k].Schema) # ToLower(opts.ExcludeSchemas[i])

\* C22 witness: exclude_tables names Logs, the snapshot holds an idle table
\* logs and an idle table users; Audit returned findings, on users only.
ExcludedIdleTableSkipped ==
    /\ pcAn = "audit"
    /\ opts.ExcludeTables = <<"Logs">>
    /\ \E i \in 1..Len(snap.Stats) :
          snap.Stats[i].Name = "logs" /\ snap.Stats[i].SeqScan = 0 /\ snap.Stats[i].IdxScan = 0
    /\ \E k \in 1..Len(found) : found[k].Type = "UNUSED_TABLE" /\ found[k].Table = "users"


\* the stats rows of one snapshot table, schema and name as the catalog
\* gives them
OwnStats(t) ==
    {i \in 1..Len(snap.Stats) : snap.Stats[i].Schema = t.Schema /\ snap.Stats[i].Name = t.Name}

\* C28: for a snapshot table with a stats row, Diff returns
\* UNREFERENCED_TABLE for (schema, name) exactly when no code refers to the
\* name and that table's own stats row has seq_scan = 0 and idx_scan = 0,
\* whatever the stats of a table of the same name in another schema.
UnreferencedByOwnStats ==
    pcAn = "diff" =>
        \A n \in 1..Len(snap.Tables) :
            LET t == snap.Tables[n]
            IN OwnStats(t) # {} =>
                 ((\E k \in FoundOfType("UNREFERENCED_TABLE") :
                       found[k].Schema = t.Schema /\ found[k].Table = t.Name)
                   <=> (/\ \A c \in 1..Len(scan.Tables) : ToLower(scan.Tables[c]) # ToLower(t.Name)
                        /\ \A i \in OwnStats(t) :
                              snap.Stats[i].SeqScan = 0 /\ snap.Stats[i].IdxScan = 0))
(***************************************************************************)
(* Properties of scanFile and the multi-line buffer.                       *)
(***************************************************************************)

\* the references of fRefs with the schema, table, context and line of r, and
\* the calls of scanText for line n
SameRefs(r) ==
    {k \in 1..Len(fRefs) :
        /\ fRefs[k].Schema = r.Schema
        /\ fRefs[k].Table = r.Table
        /\ fRefs[k].Context = r.Context
        /\ fRefs[k].Line = r.Line}
CallsAt(n) == {c \in 1..Len(fScanned) : fScanned[c].line = n}

\* the positions where a text names a table after FROM or JOIN
Mentions(text, table) ==
    {i \in 1..(Len(text) - 2) :
        text[i] \in {"FROM", "JOIN"} /\ text[i + 1] = " " /\ text[i + 2] = table}

\* C11: a statement handed to scanText, whatever number of lines it was
\* gathered from, adds at most one TableRef for each schema, table and
\* context: the references with one key and one line are no more than the
\* statements scanned for that line.
OneRefPerStatementAndKey ==
    \A k \in 1..Len(fRefs) :
        Cardinality(SameRefs(fRefs[k])) <= Cardinality(CallsAt(fRefs[k].Line))

\* C11 witness: a statement gathered from two lines names users twice in the
\* SELECT context and has one reference to it.
RepeatedTableInMultiLineStatement ==
    \E c \in 1..Len(fScanned) :
        /\ fScanned[c].line < fScanned[c].at
        /\ Cardinality(Mentions(fScanned[c].text, "users")) >= 2
        /\ Cardinality(CallsAt(fScanned[c].line)) = 1
        /\ Cardinality({k \in 1..Len(fRefs) :
                          /\ fRefs[k].Table = "users"
                          /\ fRefs[k].Context = ContextSelect
                          /\ fRefs[k].Line = fScanned[c].line}) = 1

\* the calls of scanText whose text came out of the buffer
Buffered(c) == fScanned[c].from # "line"

\* C12: every statement that comes out of the buffer carries the number of
\* the line that opened it: in a .sql file the line that holds the first
\* piece of the statement, in a code file the line that holds the opening
\* backtick or triple quote; and every reference carries the line of a
\* scanned text.
StatementsCarryOpeningLine ==
    /\ \A c \in 1..Len(fScanned) :
          Buffered(c) =>
              LET opening == fLines[fScanned[c].line]
              IN /\ fExt = ".sql" => Head(fScanned[c].text) \in Range(opening)
                 /\ fExt \in backtickExts => Backtick \in Range(opening)
                 /\ fExt \in tripleQuoteExts =>
                        Range(opening) \cap {TripleDouble, TripleSingle} # {}
    /\ \A k \in 1..Len(fRefs) : CallsAt(fRefs[k].Line) # {}

\* the text of a line after its last unescaped backtick, the one that no
\* other backtick of the line matches
AfterUnmatchedBacktick(line) ==
    LET at == UnescapedBackticks(line)
    IN IF at = {} THEN line
       ELSE SubSeq(line, (CHOOSE i \in at : \A j \in at : i >= j) + 1, Len(line))

\* C13: the statement emitted when a backtick block closes is the normalized
\* text from just after the unmatched backtick of the opening line up to the
\* first unescaped backtick of the closing line.
BacktickBlockText ==
    \A c \in 1..Len(fScanned) :
        (fExt \in backtickExts /\ fScanned[c].from = "close") =>
            fScanned[c].text =
                trimAtBacktick(
                    normalize(<<AfterUnmatchedBacktick(fLines[fScanned[c].line])>>
                              \o SubSeq(fLines, fScanned[c].line + 1, fScanned[c].at)))

\* C14: when the file ends while the buffer holds text that is not blank,
\* the flush hands exactly one more statement to scanText, the normalized
\* text of all buffered lines, and leaves the buffer empty.
FlushEmitsOneFinalStatement ==
    [][(pcFile = "reading" /\ pcFile' = "done" /\ normalize(fBuf.lines) # <<>>) =>
          /\ Len(fScanned') = Len(fScanned) + 1
          /\ fScanned'[Len(fScanned')].text = normalize(fBuf.lines)
          /\ fScanned'[Len(fScanned')].line = fBuf.startLine
          /\ fBuf'.lines = <<>>]_vars

\* C14 witness: a file ended inside a block or an unterminated statement of
\* two lines, and the last scanned text is the flushed one.
FlushedUnterminatedText ==
    /\ pcFile = "done"
    /\ fScanned # <<>>
    /\ fScanned[Len(fScanned)].from = "flush"
    /\ fScanned[Len(fScanned)].line < fLineNum
    /\ fBuf.lines = <<>>

\* the single quotes of a text
QuotesIn(text) == {i \in 1..Len(text) : text[i] = "'"}

\* C15: a statement is completed only at a semicolon outside a string
\* literal, so the single quotes of every statement completed at a semicolon
\* pair up.
SemicolonInLiteralNeverCompletes ==
    \A c \in 1..Len(fScanned) :
        fScanned[c].from = "semicolon" => Cardinality(QuotesIn(fScanned[c].text)) % 2 = 0

\* C16: no emitted TableRef names a SQL keyword as its table, compared
\* without regard to case, and no emitted ColumnRef names a SQL keyword or a
\* listed SQL function as its column.
NoKeywordNamesEmitted ==
    /\ \A k \in 1..Len(fRefs) : ToLower(fRefs[k].Table) \notin sqlKeywords
    /\ \A k \in 1..Len(fColRefs) :
          ToLower(fColRefs[k].Column) \notin sqlKeywords \cup sqlFunctions

\* C16 witness: a scanned text has the keyword Select where a table is named
\* and the function name Count where a column is compared, and the same text
\* gave a table reference and a column reference.
KeywordCandidatesScanned ==
    \E c \in 1..Len(fScanned) :
        /\ Mentions(fScanned[c].text, "Select") # {}
        /\ \E i \in 1..(Len(fScanned[c].text) - 2) :
              fScanned[c].text[i] = "WHERE" /\ fScanned[c].text[i + 2] = "Count"
        /\ Cardinality(CallsAt(fScanned[c].line)) = 1
        /\ \E k \in 1..Len(fRefs) : fRefs[k].Line = fScanned[c].line
        /\ \E k \in 1..Len(fColRefs) : fColRefs[k].Line = fScanned[c].line

\* the valid columns that a column pattern captures in a text and that no
\* earlier pattern gave a match for
CapturedBy(n, text) ==
    LET own == ColumnCandidates(<<columnPatterns[n]>>, text)
        earlier == ColumnCandidates(SubSeq(columnPatterns, 1, n - 1), text)
    IN {own[k].Column : k \in 1..Len(own)}
         \ {earlier[k].Column : k \in {j \in 1..Len(earlier) : earlier[j].Table = ""}}

\* C17: a column matched by the WHERE/AND/OR pattern is emitted with context
\* WHERE and a column matched by the ORDER BY/GROUP BY pattern with context
\* ORDER_BY.
ConditionColumnsCarryTheirContext ==
    \A c \in 1..Len(fScanned) :
        /\ \A col \in CapturedBy(3, fScanned[c].text) :
              \E k \in 1..Len(fColRefs) :
                  /\ fColRefs[k].Column = col
                  /\ fColRefs[k].Line = fScanned[c].line
                  /\ fColRefs[k].Context = "WHERE"
        /\ \A col \in CapturedBy(4, fScanned[c].text) \ CapturedBy(3, fScanned[c].text) :
              \E k \in 1..Len(fColRefs) :
                  /\ fColRefs[k].Column = col
                  /\ fColRefs[k].Line = fScanned[c].line
                  /\ fColRefs[k].Context = "ORDER_BY"



\* the positions of a text where a schema-qualified FROM reference starts
QualifiedFromAt(text) ==
    {i \in 1..(Len(text) - 4) :
        /\ ToUpper(text[i]) = "FROM"
        /\ text[i + 1] \in WhiteSpace
        /\ IsWord(text[i + 2])
        /\ text[i + 3] = "."
        /\ IsWord(text[i + 4])}

\* C29: for a text that holds FROM <schema>.<table>, the references of the
\* scanText call on it hold one to <table> carrying <schema> and none
\* whose table is <schema>.
QualifiedNameGivesTableOnly ==
    \A c \in 1..Len(fScanned) :
        \A i \in QualifiedFromAt(fScanned[c].text) :
            LET schema == fScanned[c].text[i + 2]
                table == fScanned[c].text[i + 4]
                ms == ScanLine(fScanned[c].text)
            IN /\ \E k \in 1..Len(ms) : ms[k].Table = table /\ ms[k].Schema = schema
               /\ \A r \in 1..Len(fRefs) : fRefs[r].Table # schema

\* C30: once a code file is scanned, every word of every line has been in
\* the text of a scanText call, and every table the pattern engine finds on
\* a line of the file is among the references of the file.
BufferingLosesNoText ==
    (pcFile = "done" /\ fExt # ".sql") =>
        \A l \in 1..Len(fLines) :
            /\ \A k \in 1..Len(fLines[l]) :
                  IsWord(fLines[l][k]) =>
                      \E c \in 1..Len(fScanned) :
                          \E j \in 1..Len(fScanned[c].text) : fScanned[c].text[j] = fLines[l][k]
            /\ \A m \in 1..Len(ScanLine(fLines[l])) :
                  \E r \in 1..Len(fRefs) : fRefs[r].Table = ScanLine(fLines[l])[m].Table

\* the errors of the calls made so far, and the calls that failed with an
\* error connectWithRetry retries
Retried == {k \in 1..Len(calls) : isRetryable(calls[k].err)}

\* C23: connectWithRetry calls newInspectorOnce at most 3 times, whatever
\* the errors, and once the third call has failed with a retryable error it
\* returns that last error.
AtMostThreeAttemptsThenLastError ==
    /\ Len(calls) <= 3
    /\ (pcConn = "done" /\ Len(calls) = 3 /\ 3 \in Retried) =>
          connRet = [inspector |-> FALSE, err |-> calls[3].err]

\* the errors C24 names: authentication (28P01, 28000), connection string
\* parse, unknown host
FatalErrors ==
    {"pg 28P01", "pg 28000", "connect: cannot parse not-a-url",
     "dial: lookup db: no such host"}

\* C24: a call that fails with an authentication error, a connection-string
\* parse error or an unknown-host error is the last call: connectWithRetry
\* has returned that error, with no select entered after it.
FatalErrorReturnedAtOnce ==
    \A k \in 1..Len(calls) :
        calls[k].err \in FatalErrors =>
            /\ k = Len(calls)
            /\ pcConn = "done"
            /\ connRet = [inspector |-> FALSE, err |-> calls[k].err]
            /\ \A w \in 1..Len(waits) : waits[w].after # k

\* C24 witness: the first call failed with a retryable error, the delay was
\* waited out, the second call failed with a 28P01 and was returned.
AuthErrorOnSecondAttempt ==
    /\ pcConn = "done"
    /\ Len(calls) = 2
    /\ calls[1].err = "dial: connection refused"
    /\ calls[2].err = "pg 28P01"
    /\ connRet.err = "pg 28P01"
    /\ Len(waits) = 1 /\ waits[1].ended = "timer"

\* C25: no call of newInspectorOnce is made under a context that is done, a
\* select that the context's end woke is not followed by a call, and a
\* connectWithRetry that returns under a context that is done returns an
\* error.
CancelledContextStartsNoAttempt ==
    /\ \A k \in 1..Len(calls) : calls[k].ctx = Nil
    /\ \A w \in 1..Len(waits) : waits[w].ended = "done" => Len(calls) = waits[w].after
    /\ (pcConn = "done" /\ ctxErr # Nil) => connRet.err # Nil

\* C27: a select on the delay is entered only between two calls: none is
\* entered after the last permitted call.
NoWaitAfterLastAttempt ==
    \A w \in 1..Len(waits) : waits[w].after < maxRetries
====
